---- MODULE Spec2Model ----
(***************************************************************************)
(* Trust Layer: the real-time messaging, moderation and connection-session *)
(* subsystem (Express routes + Socket.io handler + MySQL access layer).     *)
(*                                                                         *)
(* Every awaited database call is a suspension point: the statement is     *)
(* executed by the store in one step and the JavaScript continuation that   *)
(* follows it runs in a later step whenever that continuation touches       *)
(* in-memory state shared with other requests (the connection registry,     *)
(* io.emit).  Requests are served from a pool of store connections, so the  *)
(* continuations of different requests may resume in any order.             *)
(***************************************************************************)
EXTENDS Integers, Sequences, FiniteSets, TLC

VARIABLES
    is_banned,        \* users.is_banned, per user id
    revoked_tokens,   \* rows of revoked_tokens: [token_hash, expires_at]
    clock,            \* NOW() of the store
    connectedUsers,   \* socketHandler.js: Map socket.id -> {userId, username, avatar}
    hs,               \* per socket: progress of its handshake / connection
    adminReq,         \* per slot: one request to /api/admin/users/:id/ban
    emitted,          \* every event handed to io.emit / socket.emit, in order
    messages,         \* rows of the messages table, by id
    moods,            \* rows of the moods table, by id
    reports,          \* rows of the reports table
    reactions,        \* rows of the reactions table
    req,              \* per slot: one request to /api/messages/...
    now,              \* Date.now(), in milliseconds
    timestamps,       \* chat.js: rateLimiter.timestamps of each actor's page
    hits,             \* messageLimiter's store: per key, totalHits and resetTime
    sent,             \* observation: each actor's POST /messages of the last minute
    pages,            \* chat.js, per socket: events handled and rows of #messages-wrap
    localStorage,     \* security.js: the attempts stored under the key rl_<action>
    lastCheck         \* observation: the last call of a client-side limiter

vars == <<is_banned, revoked_tokens, clock, connectedUsers, hs, adminReq, emitted,
          messages, moods, reports, reactions, req, now, timestamps, hits, sent,
          pages, localStorage, lastCheck>>

\* The variables of the connection registry and ban handlers, and the rest
banVars == <<connectedUsers, hs, adminReq>>
storeVars == <<messages, moods, reports, reactions>>
httpVars == <<messages, moods, reports, reactions, req>>
authVars == <<is_banned, revoked_tokens, clock>>
limitVars == <<now, timestamps, hits, sent>>
clientVars == <<pages, localStorage, lastCheck>>

---------------------------------------------------------------------------
(* Bounds and universes *)

MaxAdminReq == 2
MaxSockets == 2
MaxReq == 2

Users == {1, 2}          \* rows of the users table
Admins == {1}            \* users.is_admin = 1
GhostUser == 0           \* an id carried by a signed token whose row is gone (null user)
None == "none"
Everyone == 0          \* io.emit: every connected socket

Sockets == 1..MaxSockets
AdminSlots == 1..MaxAdminReq
ReqSlots == 1..MaxReq
NULL == -1               \* SQL NULL in a nullable column

\* Bearer credentials: a signed, unexpired token of a user id, a token whose
\* signature or expiry fails jwt.verify, or no token at all.
ValidTokens == {[kind |-> "jwt", userId |-> u] : u \in Users \cup {GhostUser}}
BadToken == [kind |-> "bad", userId |-> GhostUser]
NoToken == [kind |-> "missing", userId |-> GhostUser]
Tokens == ValidTokens \cup {BadToken, NoToken}

\* Network origins of HTTP requests (req.ip)
IPs == {1, 2}

\* Pages that have handled no event and show no message
NoPages == [s \in Sockets |-> [cursor |-> 0, rows |-> <<>>]]

\* No limiter was called yet
NoCheck == [limiter |-> None, at |-> 0, before |-> <<>>, after |-> <<>>,
            max |-> 0, window |-> 0, storage |-> None,
            allowed |-> FALSE, wait |-> 0, nth |-> 0, first |-> 0]

\* The limiters before any attempt
NoTimestamps == [u \in Users |-> <<>>]
NoHits == [ip \in IPs |-> [totalHits |-> 0, resetTime |-> 0]]
NoSent == [u \in Users |-> [nth |-> 0, first |-> 0]]

username(u) == <<"user", u>>
avatar(u) == <<"avatar", u>>

\* The private columns of the users table
email(u) == <<"email", u>>
first_name(u) == <<"first_name", u>>
last_name(u) == <<"last_name", u>>

---------------------------------------------------------------------------
(* database.js: users and revoked_tokens *)

\* SELECT ... FROM users WHERE id = ? LIMIT 1; rows[0] || null
NoUser == [id |-> GhostUser, username |-> username(GhostUser),
           email |-> email(GhostUser), avatar |-> avatar(GhostUser),
           first_name |-> first_name(GhostUser), last_name |-> last_name(GhostUser),
           is_banned |-> FALSE, is_admin |-> FALSE]

findUserById(id) ==
    IF id \in Users
    THEN [id |-> id, username |-> username(id), email |-> email(id),
          avatar |-> avatar(id), first_name |-> first_name(id),
          last_name |-> last_name(id),
          is_banned |-> is_banned[id], is_admin |-> (id \in Admins)]
    ELSE NoUser

\* crypto.createHash('sha256').update(token).digest('hex')
sha256(token) == <<"sha256", token.kind, token.userId>>

\* (mutant) the SELECT without its condition on expires_at
isTokenRevoked_anyRow(tokenHash) ==
    \E row \in revoked_tokens : row.token_hash = tokenHash

\* SELECT id FROM revoked_tokens WHERE token_hash = ? AND expires_at > NOW()
isTokenRevoked(tokenHash) ==
    \E row \in revoked_tokens : row.token_hash = tokenHash /\ row.expires_at > clock

\* jwt.verify(token, JWT_SECRET): throws unless signature and expiry are good
jwtVerifies(token) == token.kind = "jwt"

---------------------------------------------------------------------------
(* auth_middleware.js: authenticate, as the two store reads it awaits *)

\* Lines 33-48: header check, jwt.verify, then the revocation query is issued.
\* Result: the status answered at once (401), or 0 when the query is pending.
authenticateHeader(token) ==
    IF token.kind = "missing" THEN 401
    ELSE IF ~jwtVerifies(token) THEN 401
    ELSE 0

\* Lines 48-51: outcome of the revocation query
authenticateRevoked(token) ==
    IF isTokenRevoked(sha256(token)) THEN 401 ELSE 0

\* Lines 54-70: outcome of the user load; 0 when req.user is set and next() runs
authenticateUser(user) ==
    IF user = NoUser THEN 401
    ELSE IF user.is_banned THEN 403
    ELSE 0

\* (mutant) the admin router without requireAdmin
requireAdmin_absent(user) == 0

\* admin_middleware.js
requireAdmin(user) ==
    IF user = NoUser THEN 401
    ELSE IF ~user.is_admin THEN 403
    ELSE 0

---------------------------------------------------------------------------
(* socketHandler.js *)

Emit(ev) == emitted' = Append(emitted, ev)

\* socket.broadcast.emit of socket s: every connected socket but s
AllBut(s) == 0 - s - 1

\* Socket t is among those an event addressed to `to` is handed to
Addressed(to, t) == to \in {Everyone, t} \/ (to < 0 /\ to # AllBut(t))

MapSet(m, k, v) == [x \in (DOMAIN m) \cup {k} |-> IF x = k THEN v ELSE m[x]]
\* (mutant) a disconnect handler that leaves the entry in the Map
MapDelete_keeps(m, k) == m

\* connectedUsers.delete(socket.id)
MapDelete(m, k) == [x \in (DOMAIN m) \ {k} |-> m[x]]

\* observation: on arrival of a credential, whether its actor was banned and
\* whether its hash was in the revocation list, unexpired
NoSeen == [banned |-> FALSE, revoked |-> FALSE]
Seen(token) ==
    [banned |-> (token.userId \in Users /\ is_banned[token.userId]),
     revoked |-> isTokenRevoked(sha256(token))]

\* observation: heard, the names of the events the client has emitted on the
\* socket, in order
IdleHs == [pc |-> "idle", token |-> NoToken, user |-> NoUser, seen |-> NoSeen,
           heard |-> <<>>]

\* A client opens a socket; io.use runs up to the awaited findUserById.
\* Socket ids are handed out in order of arrival.
HsReceive(s) ==
    /\ hs[s].pc = "idle"
    /\ \A t \in Sockets : t < s => hs[t].pc # "idle"
    /\ \E token \in Tokens :
          hs' = [hs EXCEPT ![s] =
                    IF token.kind = "missing"
                    THEN [pc |-> "refused", token |-> token, user |-> NoUser,
                          seen |-> Seen(token), heard |-> <<>>]
                    ELSE IF ~jwtVerifies(token)
                    THEN [pc |-> "refused", token |-> token, user |-> NoUser,
                          seen |-> Seen(token), heard |-> <<>>]
                    ELSE [pc |-> "findUserById", token |-> token, user |-> NoUser,
                          seen |-> Seen(token), heard |-> <<>>]]
    /\ UNCHANGED <<is_banned, revoked_tokens, clock, limitVars, clientVars, connectedUsers, adminReq, emitted, httpVars>>

\* The store answers findUserById; the middleware refuses or calls next().
HsFindUser(s) ==
    /\ hs[s].pc = "findUserById"
    /\ LET user == findUserById(hs[s].token.userId) IN
          hs' = [hs EXCEPT ![s] =
                    IF user = NoUser THEN [@ EXCEPT !.pc = "refused"]
                    ELSE IF user.is_banned THEN [@ EXCEPT !.pc = "refused"]
                    ELSE [@ EXCEPT !.pc = "accepted", !.user = user]]
    /\ UNCHANGED <<is_banned, revoked_tokens, clock, limitVars, clientVars, connectedUsers, adminReq, emitted, httpVars>>

\* io.on('connection'): registers the socket and broadcasts the count.
OnConnection(s) ==
    /\ hs[s].pc = "accepted"
    /\ LET user == hs[s].user
           reg == MapSet(connectedUsers, s,
                         [userId |-> user.id, username |-> user.username,
                          avatar |-> user.avatar])
           n == Cardinality(DOMAIN reg)
       IN /\ connectedUsers' = reg
          /\ emitted' = emitted \o
                <<[event |-> "online_count", data |-> n, to |-> Everyone],
                  [event |-> "online_count", data |-> n, to |-> s]>>
    /\ hs' = [hs EXCEPT ![s].pc = "connected"]
    /\ UNCHANGED <<is_banned, revoked_tokens, clock, limitVars, clientVars, adminReq, httpVars>>

\* socket.on('disconnect'): the transport closed (client left or ping timeout).
OnDisconnect(s) ==
    /\ hs[s].pc = "connected"
    /\ LET reg == MapDelete(connectedUsers, s) IN
          /\ connectedUsers' = reg
          /\ Emit([event |-> "online_count", data |-> Cardinality(DOMAIN reg),
                   to |-> Everyone])
    /\ hs' = [hs EXCEPT ![s].pc = "closed"]
    /\ UNCHANGED <<is_banned, revoked_tokens, clock, limitVars, clientVars, adminReq, httpVars>>

---------------------------------------------------------------------------
(* routes_admin.js: POST and DELETE /api/admin/users/:id/ban *)

IdleAdminReq == [op |-> None, pc |-> "idle", token |-> NoToken, user |-> NoUser,
                 target |-> GhostUser, status |-> 0, seen |-> NoSeen,
                 \* GET /reports: req.query.status, the rows and the total
                 \* answered; observation: the reports stored on arrival
                 filter |-> None, listing |-> <<>>, total |-> 0, known |-> {},
                 \* PATCH /reports/:id: the id and req.body.status
                 reportId |-> 0, body |-> None,
                 \* DELETE /messages/:id
                 messageId |-> 0]

Respond(r, code) == [r EXCEPT !.pc = "done", !.status = code]

\* The request arrives; authenticate runs up to the awaited isTokenRevoked.
\* Slots are taken in order of arrival.
AdminReceive(i) ==
    /\ adminReq[i].pc = "idle"
    /\ \A j \in AdminSlots : j < i => adminReq[j].pc # "idle"
    /\ \E op \in {"ban", "unban"}, token \in Tokens, target \in Users :
          LET r == [IdleAdminReq EXCEPT !.op = op, !.token = token, !.target = target,
                                        !.seen = Seen(token)]
              code == authenticateHeader(token)
          IN adminReq' = [adminReq EXCEPT ![i] =
                 IF code # 0 THEN Respond(r, code)
                 ELSE [r EXCEPT !.pc = "isTokenRevoked"]]
    /\ UNCHANGED <<is_banned, revoked_tokens, clock, limitVars, clientVars, connectedUsers, hs, emitted, httpVars>>

\* The store answers isTokenRevoked; authenticate issues findUserById.
AdminRevoked(i) ==
    /\ adminReq[i].pc = "isTokenRevoked"
    /\ LET code == authenticateRevoked(adminReq[i].token) IN
          adminReq' = [adminReq EXCEPT ![i] =
                 IF code # 0 THEN Respond(@, code)
                 ELSE [@ EXCEPT !.pc = "findUserById"]]
    /\ UNCHANGED <<is_banned, revoked_tokens, clock, limitVars, clientVars, connectedUsers, hs, emitted, httpVars>>

\* (mutant) the ban handler without its test of the target
banHandlerStart_noSelfCheck(r) == [r EXCEPT !.pc = "update"]

\* The ban handler's synchronous prefix (lines 168-177): self-ban is refused,
\* otherwise the UPDATE is issued.
banHandlerStart(r) ==
    IF r.target = r.user.id THEN Respond(r, 400)
    ELSE [r EXCEPT !.pc = "update"]

\* The unban handler's synchronous prefix (lines 199-204)
unbanHandlerStart(r) == [r EXCEPT !.pc = "update"]

\* GET /reports, lines 31-40: the listing query is issued
listHandlerStart(r) == [r EXCEPT !.pc = "selectReports"]

\* (mutant) the PATCH handler without its test of the body's status
patchHandlerStart_anyStatus(r) == [r EXCEPT !.pc = "updateReport"]

\* PATCH /reports/:id, lines 109-121: the body's status is checked, then the
\* UPDATE is issued
patchHandlerStart(r) ==
    IF r.body \notin {"resolved", "rejected"} THEN Respond(r, 400)
    ELSE [r EXCEPT !.pc = "updateReport"]

\* DELETE /messages/:id, lines 142-146: deleteMessage is called
moderateDeleteHandlerStart(r) == [r EXCEPT !.pc = "deleteMessage"]

\* The route reached once authenticate and requireAdmin have called next()
adminHandlerStart(r) ==
    CASE r.op = "ban" -> banHandlerStart(r)
      [] r.op = "unban" -> unbanHandlerStart(r)
      [] r.op = "listReports" -> listHandlerStart(r)
      [] r.op = "transitionReport" -> patchHandlerStart(r)
      [] r.op = "moderateDeleteMessage" -> moderateDeleteHandlerStart(r)

\* The store answers findUserById; authenticate, requireAdmin and the handler's
\* synchronous prefix run.
AdminFindUser(i) ==
    /\ adminReq[i].pc = "findUserById"
    /\ LET user == findUserById(adminReq[i].token.userId)
           r == [adminReq[i] EXCEPT !.user = user]
           code == authenticateUser(user)
           adm == requireAdmin(user)
       IN adminReq' = [adminReq EXCEPT ![i] =
                 IF code # 0 THEN Respond(adminReq[i], code)
                 ELSE IF adm # 0 THEN Respond(r, adm)
                 ELSE adminHandlerStart(r)]
    /\ UNCHANGED <<is_banned, revoked_tokens, clock, limitVars, clientVars, connectedUsers, hs, emitted, httpVars>>

\* The store commits UPDATE users SET is_banned = ? WHERE id = ?
AdminUpdate(i) ==
    /\ adminReq[i].pc = "update"
    /\ is_banned' = [is_banned EXCEPT ![adminReq[i].target] = (adminReq[i].op = "ban")]
    /\ adminReq' = [adminReq EXCEPT ![i].pc = "after_update"]
    /\ UNCHANGED <<revoked_tokens, clock, limitVars, clientVars, connectedUsers, hs, emitted, httpVars>>

\* What the ban handler does to the connection registry once the UPDATE has
\* committed (lines 179-181): it only emits user_banned.
banRegistryEffect(reg, target) == reg

\* The continuation after the UPDATE: ban emits user_banned (lines 180-188),
\* unban emits nothing (lines 206-211); both answer 200.
AdminAfterUpdate(i) ==
    /\ adminReq[i].pc = "after_update"
    /\ IF adminReq[i].op = "ban"
       THEN /\ Emit([event |-> "user_banned", data |-> adminReq[i].target, to |-> Everyone])
            /\ connectedUsers' = banRegistryEffect(connectedUsers, adminReq[i].target)
       ELSE UNCHANGED <<emitted, connectedUsers>>
    /\ adminReq' = [adminReq EXCEPT ![i] = Respond(@, 200)]
    /\ UNCHANGED <<is_banned, revoked_tokens, clock, limitVars, clientVars, hs, httpVars>>

---------------------------------------------------------------------------
(* The connection-session specification *)

InitBan ==
    /\ is_banned = [u \in Users |-> FALSE]
    /\ revoked_tokens = {}
    /\ clock = 0
    /\ connectedUsers = <<>>
    /\ hs = [s \in Sockets |-> IdleHs]
    /\ adminReq = [i \in AdminSlots |-> IdleAdminReq]
    /\ emitted = <<>>
    /\ messages = <<>>
    /\ reports = {}
    /\ reactions = {}
    /\ req = <<>>
    /\ now = 0
    /\ timestamps = NoTimestamps
    /\ hits = NoHits
    /\ sent = NoSent
    /\ pages = NoPages
    /\ localStorage = <<>>
    /\ lastCheck = NoCheck
    /\ moods = <<>>

\* Steps taken by clients (or by the network): opening a socket, closing it,
\* sending an HTTP request.
ClientBan ==
    \/ \E s \in Sockets : HsReceive(s)
    \/ \E s \in Sockets : OnDisconnect(s)
    \/ \E i \in AdminSlots : AdminReceive(i)

\* Steps the server takes on its own once a request or handshake is under way.
ServerBan ==
    \/ \E s \in Sockets : HsFindUser(s)
    \/ \E s \in Sockets : OnConnection(s)
    \/ \E i \in AdminSlots : AdminRevoked(i)
    \/ \E i \in AdminSlots : AdminFindUser(i)
    \/ \E i \in AdminSlots : AdminUpdate(i)
    \/ \E i \in AdminSlots : AdminAfterUpdate(i)

NextBan == ClientBan \/ ServerBan

SpecBan == InitBan /\ [][NextBan]_vars

\* The server never abandons a handshake or request it has begun.
FairSpecBan == SpecBan /\ WF_vars(ServerBan)

---------------------------------------------------------------------------
(* Claims on the connection registry and bans *)

\* A ban of the actor behind socket s has been committed by the store (its
\* handler has not answered yet) while s is in the registry.
BanCommittedOn(s) ==
    /\ s \in DOMAIN connectedUsers
    /\ \E i \in AdminSlots :
          /\ adminReq[i].op = "ban"
          /\ adminReq[i].pc = "after_update"
          /\ adminReq[i].target = connectedUsers[s].userId

\* C1: once a ban has succeeded while the target holds a connection, the
\* server itself eventually removes that connection from the registry.
C1_BanEvictsConnections ==
    \A s \in Sockets : BanCommittedOn(s) ~> (s \notin DOMAIN connectedUsers)

BanInFlight(x) ==
    \E i \in AdminSlots :
        /\ adminReq[i].op = "ban"
        /\ adminReq[i].target = x
        /\ adminReq[i].pc \notin {"idle", "done"}

\* C2: when no ban request for X is in flight, the registry holds no entry
\* of an actor X whose banned flag is set in the store.
C2_NoBannedActorConnected ==
    \A s \in DOMAIN connectedUsers :
        LET x == connectedUsers[s].userId IN
            ~BanInFlight(x) => ~is_banned[x]

---------------------------------------------------------------------------
(* database.js: messages and reports *)

\* SELECT user_id FROM messages WHERE id = ? AND deleted_at IS NULL LIMIT 1
selectLiveMessage(messageId) ==
    IF messageId \in DOMAIN messages /\ messages[messageId].deleted_at = NULL
    THEN <<[user_id |-> messages[messageId].user_id]>>
    ELSE <<>>

\* (mutant) the UPDATE without its condition on deleted_at
deleteMessage_overwrites(messageId) ==
    [m \in DOMAIN messages |->
        IF m = messageId THEN [messages[m] EXCEPT !.deleted_at = clock]
        ELSE messages[m]]

\* UPDATE messages SET deleted_at = NOW() WHERE id = ? AND deleted_at IS NULL
deleteMessage(messageId) ==
    [m \in DOMAIN messages |->
        IF m = messageId /\ messages[m].deleted_at = NULL
        THEN [messages[m] EXCEPT !.deleted_at = clock]
        ELSE messages[m]]

\* (mutant) the reports table without its unique key
uq_report_dropped(reporterId, messageId) == TRUE

\* schema.sql: UNIQUE KEY uq_report (reporter_id, message_id) admits the row
uq_report(reporterId, messageId) ==
    ~\E row \in reports : row.reporter_id = reporterId /\ row.message_id = messageId

\* AUTO_INCREMENT of reports.id
nextReportId == Cardinality(reports) + 1

\* createReport: the INSERT; err is "ER_DUP_ENTRY" when uq_report rejects it
createReport(reporterId, messageId, reason) ==
    IF uq_report(reporterId, messageId)
    THEN [err |-> None,
          rows |-> reports \cup {[id |-> nextReportId, reporter_id |-> reporterId,
                                  message_id |-> messageId, reason |-> reason,
                                  status |-> "pending"]}]
    ELSE [err |-> "ER_DUP_ENTRY", rows |-> reports]

---------------------------------------------------------------------------
(* routes_messages.js: POST /:id/report and DELETE /:id *)

NoReason == "undefined"
ALLOWED_REASONS == {"harcelement", "contenu offensant", "crise", "spam"}
Reasons == {NoReason, "spam", "autre"}

\* What a client may put in :id -- 0 stands for every id parseInt rejects or
\* that is below 1; 1 is the stored message; 2 is an id with no row.
MessageIds == {0, 1, 2}

\* The credentials requests to /api/messages are made with
ReqTokens == {[kind |-> "jwt", userId |-> u] : u \in Users} \cup {NoToken}

IdleReq == [op |-> None, pc |-> "idle", token |-> NoToken, user |-> NoUser,
            messageId |-> 0, reason |-> NoReason, status |-> 0,
            added |-> FALSE, count |-> 0,
            \* observation: a report row (reporter, message) existed on arrival
            dupAtStart |-> FALSE,
            \* observations of a toggle: the (actor, message) pairs of the
            \* reactions table on arrival / at the answer; another toggle of the
            \* same actor on the same message was in flight during this one
            before |-> {}, after |-> {}, overlap |-> FALSE,
            \* a send: who posts ("browser": chat.js sendMessage, "direct": any
            \* other HTTP client) and from where, what was typed, what
            \* chat.js did with it ("rate_limited", "invalid", "posted"),
            \* whether it showed the crisis alert, req.body.content, the id of
            \* the inserted row and the row createMessage returned
            \* of a send by chat.js: the socket of the sending page (0: the
            \* page has no open socket), the sockets registered when it
            \* was sent, and whether sendMessage has resumed after its POST
            page |-> 0, open |-> {}, resumed |-> FALSE,
            via |-> None, ip |-> 0, input |-> <<>>, local |-> None,
            crisis |-> FALSE, content |-> <<>>, insertId |-> 0,
            \* req.body.user_id, a field no validator reads (0: absent)
            user_id |-> 0,
            \* GET /profile/:id: the id asked for and the profile answered
            \* (a field the answer does not have is None)
            target |-> GhostUser,
            profile |-> [id |-> GhostUser, username |-> None, avatar |-> None,
                         email |-> None, first_name |-> None, last_name |-> None],
            \* POST /auth/login: the password of the body ("right" is the one
            \* of the account named by target) and the token of the answer
            password |-> None, issued |-> NoToken,
            \* a call of db.revokeToken: its expiresAt
            expiresAt |-> 0,
            \* /api/moods: req.body.score, the row POST answers (id 0: none);
            \* observation: getMoods was issued for this request
            score |-> 0, mood |-> [id |-> 0, user_id |-> GhostUser, score |-> 0],
            logRead |-> FALSE,
            \* observation: the rank of this POST among the actor's POSTs of
            \* the minute that began with the first of them; and the
            \* retryAfter of the answer's body (NULL: the body has none)
            nth |-> 0, retryAfter |-> NULL,
            \* GET /: req.query.limit and the messages answered; observation:
            \* the ids of the messages that were soft-deleted on arrival
            limit |-> NULL, rows |-> <<>>, gone |-> {},
            message |-> [id |-> 0, content |-> <<>>, user_id |-> GhostUser,
                         username |-> username(GhostUser),
                         avatar |-> avatar(GhostUser)]]

\* The request arrives (slots are taken in order of arrival); authenticate
\* runs up to the awaited isTokenRevoked.
Receive(i, r) ==
    /\ req[i].pc = "idle"
    /\ \A j \in ReqSlots : j < i => req[j].pc # "idle"
    /\ LET code == authenticateHeader(r.token) IN
          req' = [req EXCEPT ![i] =
                     IF code # 0 THEN Respond(r, code)
                     ELSE [r EXCEPT !.pc = "isTokenRevoked"]]

ReportReceive(i) ==
    /\ \E token \in ReqTokens, messageId \in MessageIds, reason \in Reasons :
          Receive(i, [IdleReq EXCEPT !.op = "report", !.token = token,
                         !.messageId = messageId, !.reason = reason,
                         !.dupAtStart =
                             \E row \in reports : /\ row.reporter_id = token.userId
                                                  /\ row.message_id = messageId])
    /\ UNCHANGED <<authVars, limitVars, clientVars, banVars, emitted, storeVars>>

DeleteReceive(i) ==
    /\ \E token \in ReqTokens, messageId \in MessageIds :
          Receive(i, [IdleReq EXCEPT !.op = "delete", !.token = token,
                                     !.messageId = messageId])
    /\ UNCHANGED <<authVars, limitVars, clientVars, banVars, emitted, storeVars>>

\* The store answers isTokenRevoked; authenticate issues findUserById.
ReqRevoked(i) ==
    /\ req[i].pc = "isTokenRevoked"
    /\ LET code == authenticateRevoked(req[i].token) IN
          req' = [req EXCEPT ![i] =
                     IF code # 0 THEN Respond(@, code)
                     ELSE [@ EXCEPT !.pc = "findUserById"]]
    /\ UNCHANGED <<authVars, limitVars, clientVars, banVars, emitted, storeVars>>

\* !messageId || messageId < 1
invalidMessageId(messageId) == messageId < 1

\* POST /:id/report, lines 175-193: the checks made before the message is read
reportHandlerStart(r) ==
    IF invalidMessageId(r.messageId) THEN Respond(r, 400)
    ELSE IF r.reason # NoReason /\ r.reason \notin ALLOWED_REASONS THEN Respond(r, 400)
    ELSE [r EXCEPT !.pc = "selectMessage"]

\* DELETE /:id, lines 226-236
deleteHandlerStart(r) ==
    IF invalidMessageId(r.messageId) THEN Respond(r, 400)
    ELSE [r EXCEPT !.pc = "selectMessage"]

\* POST /:id/react, lines 146-153
reactHandlerStart(r) ==
    IF invalidMessageId(r.messageId) THEN Respond(r, 400)
    ELSE [r EXCEPT !.pc = "selectReaction"]

\* validators.js getMessagesRules: limit is optional, an integer of 1..200
getMessagesRules(limit) == limit = NULL \/ limit \in 1..200

\* GET /, lines 106-109: validate answers 422, or getMessages is called with
\* req.query.limit || 50
loadHandlerStart(r) ==
    IF ~getMessagesRules(r.limit) THEN Respond(r, 422)
    ELSE [r EXCEPT !.pc = "getMessages"]

\* GET /profile/:id, userIdParam and validate: 422 unless :id is an integer
\* of at least 1 (0 stands for every other value); then findUserById is
\* called
profileHandlerStart(r) ==
    IF r.target < 1 THEN Respond(r, 422)
    ELSE [r EXCEPT !.pc = "findProfile"]

\* (mutant) the handler answering the private fields to any requester
profileOf_full(user, requester) ==
    [id |-> user.id, username |-> user.username, avatar |-> user.avatar,
     email |-> user.email, first_name |-> user.first_name,
     last_name |-> user.last_name]

\* GET /profile/:id, lines 284-297: the public profile, with email and names
\* when the requester asks for their own
profileOf(user, requester) ==
    [id |-> user.id, username |-> user.username, avatar |-> user.avatar,
     email |-> IF requester.id = user.id THEN user.email ELSE None,
     first_name |-> IF requester.id = user.id THEN user.first_name ELSE None,
     last_name |-> IF requester.id = user.id THEN user.last_name ELSE None]

\* (mutant) GET /moods/:id without its test of the owner
moodsGetHandlerStart_noOwnerCheck(r) ==
    IF r.target < 1 THEN Respond(r, 422)
    ELSE [r EXCEPT !.pc = "getMoods"]

\* GET /moods/:id, userIdParam and lines 24-32: 422 on an id below 1, 403 when
\* the id is not the actor's, else getMoods is issued
moodsGetHandlerStart(r) ==
    IF r.target < 1 THEN Respond(r, 422)
    ELSE IF r.user.id # r.target THEN Respond(r, 403)
    ELSE [r EXCEPT !.pc = "getMoods"]

\* POST /moods, moodRules and lines 54-57: 422 on a score outside 1..10, else
\* createMood's INSERT is issued
moodsPostHandlerStart(r) ==
    IF r.score \notin 1..10 THEN Respond(r, 422)
    ELSE [r EXCEPT !.pc = "createMood"]

handlerStart(r) ==
    CASE r.op = "report" -> reportHandlerStart(r)
      [] r.op = "getMoods" -> moodsGetHandlerStart(r)
      [] r.op = "createMood" -> moodsPostHandlerStart(r)
      [] r.op = "profile" -> profileHandlerStart(r)
      [] r.op = "delete" -> deleteHandlerStart(r)
      [] r.op = "react" -> reactHandlerStart(r)
      [] r.op = "load" -> loadHandlerStart(r)

\* The store answers findUserById; authenticate finishes and the route's
\* handler runs up to its first awaited query.
ReqFindUser(i) ==
    /\ req[i].pc = "findUserById"
    /\ req[i].op # "send"
    /\ LET user == findUserById(req[i].token.userId)
           code == authenticateUser(user)
       IN req' = [req EXCEPT ![i] =
                     IF code # 0 THEN Respond(@, code)
                     ELSE handlerStart([@ EXCEPT !.user = user])]
    /\ UNCHANGED <<authVars, limitVars, clientVars, banVars, emitted, storeVars>>

\* (mutant) the handler without its own-message check
reportAfterSelect_noSelfCheck(r, rows) ==
    IF Len(rows) = 0 THEN Respond(r, 404)
    ELSE [r EXCEPT !.pc = "createReport"]

\* POST /:id/report, lines 195-203: what follows the read of the message
reportAfterSelect(r, rows) ==
    IF Len(rows) = 0 THEN Respond(r, 404)
    ELSE IF rows[1].user_id = r.user.id THEN Respond(r, 403)
    ELSE [r EXCEPT !.pc = "createReport"]

\* (mutant) the handler without its test for a missing row
deleteAfterSelect_noRowCheck(r, rows) ==
    IF Len(rows) = 0 THEN [r EXCEPT !.pc = "deleteMessage"]
    ELSE IF rows[1].user_id # r.user.id THEN Respond(r, 403)
    ELSE [r EXCEPT !.pc = "deleteMessage"]

\* DELETE /:id, lines 238-241
deleteAfterSelect(r, rows) ==
    IF Len(rows) = 0 THEN Respond(r, 404)
    ELSE IF rows[1].user_id # r.user.id THEN Respond(r, 403)
    ELSE [r EXCEPT !.pc = "deleteMessage"]

\* The store answers the SELECT of the message.
ReqSelectMessage(i) ==
    /\ req[i].pc = "selectMessage"
    /\ LET rows == selectLiveMessage(req[i].messageId) IN
          req' = [req EXCEPT ![i] =
                     IF @.op = "report" THEN reportAfterSelect(@, rows)
                     ELSE deleteAfterSelect(@, rows)]
    /\ UNCHANGED <<authVars, limitVars, clientVars, banVars, emitted, storeVars>>

\* POST /:id/report, lines 211-219: the answer to the INSERT's outcome
reportAnswer(err) ==
    IF err = None THEN 201
    ELSE IF err = "ER_DUP_ENTRY" THEN 409
    ELSE 500

\* The store executes the INSERT of createReport and the handler answers.
ReportInsert(i) ==
    /\ req[i].pc = "createReport"
    /\ LET res == createReport(req[i].user.id, req[i].messageId, req[i].reason) IN
          /\ reports' = res.rows
          /\ req' = [req EXCEPT ![i] = Respond(@, reportAnswer(res.err))]
    /\ UNCHANGED <<moods, authVars, limitVars, clientVars, banVars, emitted, messages, reactions>>

\* The store commits the UPDATE of deleteMessage.
DeleteUpdate(i) ==
    /\ req[i].pc = "deleteMessage"
    /\ messages' = deleteMessage(req[i].messageId)
    /\ req' = [req EXCEPT ![i].pc = "afterDelete"]
    /\ UNCHANGED <<moods, authVars, limitVars, clientVars, banVars, emitted, reports, reactions>>

\* DELETE /:id, lines 243-248: the continuation broadcasts and answers.
DeleteAfter(i) ==
    /\ req[i].pc = "afterDelete"
    /\ Emit([event |-> "message_deleted", data |-> req[i].messageId, to |-> Everyone])
    /\ req' = [req EXCEPT ![i] = Respond(@, 200)]
    /\ UNCHANGED <<authVars, limitVars, clientVars, banVars, storeVars>>

---------------------------------------------------------------------------
(* The report specification: reports and soft-deletes of one stored message *)

\* The store holds message 1, written by user 1.
StoredMessages == <<[id |-> 1, user_id |-> 1, salon_id |-> 1, content |-> <<[ch |-> "a", n |-> 1]>>, deleted_at |-> NULL]>>

\* The reports table is empty, or user 2 has already reported message 1.
StoredReports ==
    {{}, {[id |-> 1, reporter_id |-> 2, message_id |-> 1, reason |-> NoReason,
           status |-> "pending"]}}

InitReport ==
    /\ is_banned = [u \in Users |-> FALSE]
    /\ revoked_tokens = {}
    /\ clock = 0
    /\ connectedUsers = <<>>
    /\ hs = [s \in Sockets |-> IdleHs]
    /\ adminReq = [i \in AdminSlots |-> IdleAdminReq]
    /\ emitted = <<>>
    /\ messages = StoredMessages
    /\ reports \in StoredReports
    /\ reactions = {}
    /\ req = [i \in ReqSlots |-> IdleReq]
    /\ now = 0
    /\ timestamps = NoTimestamps
    /\ hits = NoHits
    /\ sent = NoSent
    /\ pages = NoPages
    /\ localStorage = <<>>
    /\ lastCheck = NoCheck
    /\ moods = <<>>

NextReport ==
    \/ \E i \in ReqSlots : ReportReceive(i)
    \/ \E i \in ReqSlots : DeleteReceive(i)
    \/ \E i \in ReqSlots : ReqRevoked(i)
    \/ \E i \in ReqSlots : ReqFindUser(i)
    \/ \E i \in ReqSlots : ReqSelectMessage(i)
    \/ \E i \in ReqSlots : ReportInsert(i)
    \/ \E i \in ReqSlots : DeleteUpdate(i)
    \/ \E i \in ReqSlots : DeleteAfter(i)

SpecReport == InitReport /\ [][NextReport]_vars

---------------------------------------------------------------------------
(* Claims on reports *)

Done(r) == r.pc = "done"

\* A report request that got past authentication and input validation
ReportHandled(r) ==
    /\ r.op = "report" /\ Done(r)
    /\ r.status \notin {400, 401}

NoTwoReportRows ==
    \A a, b \in reports :
        (a.reporter_id = b.reporter_id /\ a.message_id = b.message_id) => a = b

\* C3 as claimed: a fileReport(A,M) arriving after a successful one is always
\* answered DuplicateReport (409), and no pair (A,M) has two rows.
C3_SecondReportAlwaysDuplicate ==
    /\ NoTwoReportRows
    /\ \A i \in ReqSlots :
          (ReportHandled(req[i]) /\ req[i].dupAtStart) => req[i].status = 409

\* C3 as amended: it is answered DuplicateReport (409), or NotFound (404) when
\* M has been soft-deleted in between; no pair (A,M) ever has two rows, also
\* when both calls run concurrently (then exactly the loser gets 409).
C3_SecondReportDuplicateOrGone ==
    /\ NoTwoReportRows
    /\ \A i \in ReqSlots :
          (ReportHandled(req[i]) /\ req[i].dupAtStart) =>
              \/ req[i].status = 409
              \/ req[i].status = 404 /\ messages[req[i].messageId].deleted_at # NULL
    /\ \A i, j \in ReqSlots :
          (i # j /\ ReportHandled(req[i]) /\ ReportHandled(req[j])
             /\ req[i].user.id = req[j].user.id /\ req[i].messageId = req[j].messageId
             /\ req[i].messageId \in DOMAIN messages
             /\ messages[req[i].messageId].deleted_at = NULL
             /\ req[i].status = 201)
          => req[j].status = 409

\* Witness of C3: two reports of the same live message by the same actor have
\* been answered, the first 201 and the second 409.
C3_Witness ==
    \E i, j \in ReqSlots :
        /\ i # j /\ ReportHandled(req[i]) /\ ReportHandled(req[j])
        /\ req[i].user.id = req[j].user.id /\ req[i].messageId = req[j].messageId
        /\ req[i].status = 201 /\ req[j].status = 409

\* C4 as claimed: a report of one's own message is always answered SelfReport
\* (403) and stores nothing, whether the message is live or soft-deleted.
SelfReport(r) ==
    /\ ReportHandled(r)
    /\ r.messageId \in DOMAIN messages
    /\ messages[r.messageId].user_id = r.user.id

NoSelfReportRow ==
    \A row \in reports : messages[row.message_id].user_id # row.reporter_id

C4_SelfReportAlways403 ==
    /\ NoSelfReportRow
    /\ \A i \in ReqSlots : SelfReport(req[i]) => req[i].status = 403

\* C4 as amended: it never stores a row and is answered SelfReport (403), or
\* NotFound (404) when the message is already soft-deleted.
C4_SelfReportRefused ==
    /\ NoSelfReportRow
    /\ \A i \in ReqSlots :
          SelfReport(req[i]) =>
              \/ req[i].status = 403
              \/ req[i].status = 404 /\ messages[req[i].messageId].deleted_at # NULL

\* Witness of C4: the author's report of a live message was answered 403.
C4_Witness ==
    \E i \in ReqSlots : SelfReport(req[i]) /\ req[i].status = 403

---------------------------------------------------------------------------
(* database.js: reactions *)

\* SELECT id FROM reactions WHERE user_id = ? AND message_id = ?
selectReaction(userId, messageId) ==
    {row \in reactions : row.user_id = userId /\ row.message_id = messageId}

\* DELETE FROM reactions WHERE user_id = ? AND message_id = ?
deleteReaction(userId, messageId) ==
    reactions \ selectReaction(userId, messageId)

\* schema.sql: UNIQUE KEY uq_reaction (user_id, message_id) admits the row
uq_reaction(userId, messageId) == selectReaction(userId, messageId) = {}

\* schema.sql: CONSTRAINT fk_react_message admits the row
fk_react_message(messageId) == messageId \in DOMAIN messages

\* AUTO_INCREMENT of reactions.id: an id above every id in the table (the code
\* never reads a reaction's id)
nextReactionId ==
    IF reactions = {} THEN 1
    ELSE 1 + CHOOSE n \in {row.id : row \in reactions} :
                 \A row \in reactions : row.id <= n

\* INSERT INTO reactions (user_id, message_id, emoji) VALUES (?, ?, ?)
insertReaction(userId, messageId) ==
    IF ~fk_react_message(messageId)
    THEN [err |-> "ER_NO_REFERENCED_ROW_2", rows |-> reactions]
    ELSE IF ~uq_reaction(userId, messageId)
    THEN [err |-> "ER_DUP_ENTRY", rows |-> reactions]
    ELSE [err |-> None,
          rows |-> reactions \cup {[id |-> nextReactionId, user_id |-> userId,
                                    message_id |-> messageId]}]

\* (mutant) a toggle that reports the removal of a row as an addition
toggleResult_inverted(existing) == existing # {}

\* toggleReaction, lines 284-298: { added } for the rows the SELECT returned
toggleResult(existing) == existing = {}

\* The (actor, message) pairs of the reactions table
ReactionPairs == {<<row.user_id, row.message_id>> : row \in reactions}

\* getReactionCount: SELECT COUNT(*) FROM reactions WHERE message_id = ?
getReactionCount(messageId) ==
    Cardinality({row \in reactions : row.message_id = messageId})

---------------------------------------------------------------------------
(* routes_messages.js: POST /:id/react *)

SameToggle(a, b) ==
    /\ a.op = "react" /\ b.op = "react"
    /\ a.token.userId = b.token.userId /\ a.messageId = b.messageId

InFlight(r) == r.pc \notin {"idle", "done"}

ReactReceive(i) ==
    /\ \E token \in ReqTokens, messageId \in MessageIds :
          LET r == [IdleReq EXCEPT !.op = "react", !.token = token,
                        !.messageId = messageId,
                        !.before = ReactionPairs]
              busy == \E j \in ReqSlots : InFlight(req[j]) /\ SameToggle(req[j], r)
              code == authenticateHeader(token)
          IN /\ req[i].pc = "idle"
             /\ \A j \in ReqSlots : j < i => req[j].pc # "idle"
             /\ req' = [j \in ReqSlots |->
                          IF j = i
                          THEN IF code # 0 THEN Respond(r, code)
                               ELSE [r EXCEPT !.pc = "isTokenRevoked", !.overlap = busy]
                          ELSE IF code = 0 /\ InFlight(req[j]) /\ SameToggle(req[j], r)
                               THEN [req[j] EXCEPT !.overlap = TRUE]
                               ELSE req[j]]
    /\ UNCHANGED <<authVars, limitVars, clientVars, banVars, emitted, storeVars>>

\* The store answers toggleReaction's SELECT; the DELETE or the INSERT is issued.
ReactSelect(i) ==
    /\ req[i].pc = "selectReaction"
    /\ LET existing == selectReaction(req[i].user.id, req[i].messageId) IN
          req' = [req EXCEPT ![i] =
                     [@ EXCEPT !.pc = IF Cardinality(existing) > 0
                                      THEN "deleteReaction" ELSE "insertReaction",
                               !.added = toggleResult(existing)]]
    /\ UNCHANGED <<authVars, limitVars, clientVars, banVars, emitted, storeVars>>

\* The store executes toggleReaction's DELETE; getReactionCount is issued.
ReactDelete(i) ==
    /\ req[i].pc = "deleteReaction"
    /\ reactions' = deleteReaction(req[i].user.id, req[i].messageId)
    /\ req' = [req EXCEPT ![i].pc = "getReactionCount"]
    /\ UNCHANGED <<moods, authVars, limitVars, clientVars, banVars, emitted, messages, reports>>

\* POST /:id/react, lines 161-164: any error of toggleReaction is answered 500
reactErrorAnswer(err) == 500

\* The store executes toggleReaction's INSERT; on success getReactionCount is
\* issued, on an error the route's catch answers.
ReactInsert(i) ==
    /\ req[i].pc = "insertReaction"
    /\ LET res == insertReaction(req[i].user.id, req[i].messageId) IN
          /\ reactions' = res.rows
          /\ req' = [req EXCEPT ![i] =
                        IF res.err = None THEN [@ EXCEPT !.pc = "getReactionCount"]
                        ELSE [Respond(@, reactErrorAnswer(res.err)) EXCEPT
                                 !.after = ReactionPairs']]
    /\ UNCHANGED <<moods, authVars, limitVars, clientVars, banVars, emitted, messages, reports>>

\* The store answers getReactionCount.
ReactCount(i) ==
    /\ req[i].pc = "getReactionCount"
    /\ req' = [req EXCEPT ![i] =
                  [@ EXCEPT !.pc = "emitReaction",
                            !.count = getReactionCount(req[i].messageId)]]
    /\ UNCHANGED <<authVars, limitVars, clientVars, banVars, emitted, storeVars>>

\* POST /:id/react, lines 156-160: the continuation broadcasts and answers.
ReactEmit(i) ==
    /\ req[i].pc = "emitReaction"
    /\ Emit([event |-> "reaction_update",
             data |-> [messageId |-> req[i].messageId, count |-> req[i].count],
             to |-> Everyone])
    /\ req' = [req EXCEPT ![i] =
                  [Respond(@, 200) EXCEPT
                      !.after = ReactionPairs]]
    /\ UNCHANGED <<authVars, limitVars, clientVars, banVars, storeVars>>

---------------------------------------------------------------------------
(* The reaction specification: toggles on one stored message *)

\* The reactions table is empty, or user 2 has already reacted to message 1.
StoredReactions == {{}, {[id |-> 1, user_id |-> 2, message_id |-> 1]}}

InitReact ==
    /\ is_banned = [u \in Users |-> FALSE]
    /\ revoked_tokens = {}
    /\ clock = 0
    /\ connectedUsers = <<>>
    /\ hs = [s \in Sockets |-> IdleHs]
    /\ adminReq = [i \in AdminSlots |-> IdleAdminReq]
    /\ emitted = <<>>
    /\ messages = StoredMessages
    /\ reports = {}
    /\ reactions \in StoredReactions
    /\ req = [i \in ReqSlots |-> IdleReq]
    /\ now = 0
    /\ timestamps = NoTimestamps
    /\ hits = NoHits
    /\ sent = NoSent
    /\ pages = NoPages
    /\ localStorage = <<>>
    /\ lastCheck = NoCheck
    /\ moods = <<>>

NextReact ==
    \/ \E i \in ReqSlots : ReactReceive(i)
    \/ \E i \in ReqSlots : ReqRevoked(i)
    \/ \E i \in ReqSlots : ReqFindUser(i)
    \/ \E i \in ReqSlots : ReactSelect(i)
    \/ \E i \in ReqSlots : ReactDelete(i)
    \/ \E i \in ReqSlots : ReactInsert(i)
    \/ \E i \in ReqSlots : ReactCount(i)
    \/ \E i \in ReqSlots : ReactEmit(i)

SpecReact == InitReact /\ [][NextReact]_vars

---------------------------------------------------------------------------
(* Claims on reactions *)

\* A toggle that was answered 200
Toggled(r) == r.op = "react" /\ Done(r) /\ r.status = 200

\* Toggles i and j of one actor on one message, j arriving after i, none of
\* the actor's other toggles on that message between them
Consecutive(i, j) ==
    /\ i < j /\ SameToggle(req[i], req[j])
    /\ \A k \in ReqSlots : (i < k /\ k < j) => ~SameToggle(req[i], req[k])

\* The pair a toggle is about
Pair(r) == <<r.token.userId, r.messageId>>

\* No request but i and j has reached the reactions table
Alone(i, j) ==
    \A k \in ReqSlots \ {i, j} :
        req[k].pc = "idle" \/ (Done(req[k]) /\ req[k].status \in {400, 401, 403})

\* C5: two toggleReaction(A,M) run one after the other leave the (actor,
\* message) pairs of the reactions table as they were before the first; the
\* first answers added = TRUE iff no row (A,M) existed, the second the opposite.
C5_TogglePairIsIdentity ==
    /\ \A i \in ReqSlots :
          (Toggled(req[i]) /\ ~req[i].overlap) =>
              /\ req[i].added = (Pair(req[i]) \notin req[i].before)
              /\ (Pair(req[i]) \in req[i].after) = (Pair(req[i]) \notin req[i].before)
    /\ \A i, j \in ReqSlots :
          (Consecutive(i, j) /\ Toggled(req[i]) /\ Toggled(req[j])
             /\ ~req[i].overlap /\ ~req[j].overlap) =>
              /\ (Pair(req[j]) \in req[j].before) = (Pair(req[i]) \in req[i].after)
              /\ req[j].added = ~req[i].added
              /\ (Pair(req[j]) \in req[j].after) = (Pair(req[i]) \in req[i].before)
              /\ Alone(i, j) => (req[j].after = req[i].before /\ ReactionPairs = req[i].before)

\* Witness of C5: two toggles of one actor, one after the other, both answered,
\* the first having added a row and the second having removed it
C5_Witness ==
    \E i, j \in ReqSlots :
        /\ Consecutive(i, j) /\ Toggled(req[i]) /\ Toggled(req[j])
        /\ ~req[i].overlap /\ ~req[j].overlap /\ Alone(i, j)
        /\ req[i].added /\ ~req[j].added

NoTwoReactionRows ==
    \A a, b \in reactions :
        (a.user_id = b.user_id /\ a.message_id = b.message_id) => a = b

\* C6: two concurrent toggles of one actor on a stored message never leave
\* two rows, none is answered 500, and once both are answered the row is as
\* after some serial order of the two toggles, that is, as it was.
C6_DoubleClickIsAtomic ==
    /\ NoTwoReactionRows
    /\ \A i, j \in ReqSlots :
          (Consecutive(i, j) /\ Done(req[i]) /\ Done(req[j])
             /\ req[i].overlap /\ req[j].overlap
             /\ req[i].messageId \in DOMAIN messages) =>
              /\ req[i].status # 500 /\ req[j].status # 500
              /\ (Pair(req[i]) \in ReactionPairs) = (Pair(req[i]) \in req[i].before)

AllAnswered == \A i \in ReqSlots : ~InFlight(req[i])

DifferentActors ==
    \A i, j \in ReqSlots :
        (i # j /\ req[i].op = "react" /\ req[j].op = "react")
            => req[i].token.userId # req[j].token.userId

LastReactionUpdate(messageId) ==
    LET idx == {k \in 1..Len(emitted) :
                   /\ emitted[k].event = "reaction_update"
                   /\ emitted[k].data.messageId = messageId}
    IN IF idx = {} THEN NULL
       ELSE emitted[CHOOSE k \in idx : \A l \in idx : l <= k].data.count

\* C7: once all toggles (of different actors) are answered, the count of the
\* last reaction_update broadcast for M is the number of rows stored for M.
C7_LastBroadcastCountIsStored ==
    (AllAnswered /\ DifferentActors) =>
        \A m \in DOMAIN messages :
            LastReactionUpdate(m) # NULL => LastReactionUpdate(m) = getReactionCount(m)

---------------------------------------------------------------------------
(* Strings *)

\* A string is the sequence of its runs, [ch |-> character, n |-> number of
\* repetitions], adjacent runs holding different characters: "aab" is
\* <<[ch |-> "a", n |-> 2], [ch |-> "b", n |-> 1]>>.  Lengths are exact and a
\* text of 2000 characters stays small.  An accented letter is written with
\* its accent after it: e/ (e acute), e^ (e circumflex).

RECURSIVE Normalize(_)
Normalize(s) ==
    IF s = <<>> THEN <<>>
    ELSE LET rest == Normalize(Tail(s)) IN
         IF s[1].n = 0 THEN rest
         ELSE IF rest # <<>> /\ rest[1].ch = s[1].ch
         THEN <<[ch |-> s[1].ch, n |-> s[1].n + rest[1].n]>> \o Tail(rest)
         ELSE <<s[1]>> \o rest

\* A string literal, from its characters
Str(chars) == Normalize([i \in 1..Len(chars) |-> [ch |-> chars[i], n |-> 1]])

\* String.prototype.repeat
Repeat(ch, n) == Normalize(<<[ch |-> ch, n |-> n]>>)

\* a + b
Concat(a, b) == Normalize(a \o b)

\* .length
RECURSIVE StrLen(_)
StrLen(s) == IF s = <<>> THEN 0 ELSE s[1].n + StrLen(Tail(s))

\* \s of a regular expression, and the characters trim() removes
IsSpace(ch) == ch \in {" ", "\n"}

RECURSIVE trimStart(_)
trimStart(s) == IF s # <<>> /\ IsSpace(s[1].ch) THEN trimStart(Tail(s)) ELSE s

Reverse(s) == [i \in 1..Len(s) |-> s[Len(s) + 1 - i]]

\* String.prototype.trim (and validator's trim)
trim(s) == Reverse(trimStart(Reverse(trimStart(s))))

\* String.prototype.includes
includes(s, kw) ==
    IF kw = <<>> THEN TRUE
    ELSE IF Len(kw) = 1
    THEN \E j \in 1..Len(s) : s[j].ch = kw[1].ch /\ s[j].n >= kw[1].n
    ELSE \E j \in 1..(Len(s) - Len(kw) + 1) :
            LET last == j + Len(kw) - 1 IN
            /\ s[j].ch = kw[1].ch /\ s[j].n >= kw[1].n
            /\ \A m \in 2..(Len(kw) - 1) : s[j + m - 1] = kw[m]
            /\ s[last].ch = kw[Len(kw)].ch /\ s[last].n >= kw[Len(kw)].n

UpperCase == <<"A", "B", "C", "D", "E", "F", "G", "H", "I", "J", "K", "L", "M", "N", "O", "P", "Q", "R", "S", "T", "U", "V", "W", "X", "Y", "Z">>
LowerCase == <<"a", "b", "c", "d", "e", "f", "g", "h", "i", "j", "k", "l", "m", "n", "o", "p", "q", "r", "s", "t", "u", "v", "w", "x", "y", "z">>

\* String.prototype.toLowerCase
toLowerCase(s) ==
    Normalize([i \in 1..Len(s) |->
        IF \E k \in 1..Len(UpperCase) : UpperCase[k] = s[i].ch
        THEN [ch |-> LowerCase[CHOOSE k \in 1..Len(UpperCase) : UpperCase[k] = s[i].ch],
              n |-> s[i].n]
        ELSE s[i]])

---------------------------------------------------------------------------
(* chat.js: sanitizeMessage and the crisis check *)

\* text.replace(/<[^>]*>/g, ''): a match runs from a '<' to the first '>'
\* after it, and the search resumes after the match.  A character is inside a
\* match iff a '<' at or before it is followed by no '>' before it, and a '>'
\* stands at or after it.
stripTags(s) ==
    LET inside(j) == \E k \in 1..(j - 1) :
                        /\ s[k].ch = "<"
                        /\ \A m \in (k + 1)..(j - 1) : s[m].ch # ">"
        closes(j) == \E e \in (j + 1)..Len(s) : s[e].ch = ">"
    IN Normalize([j \in 1..Len(s) |->
          IF s[j].ch = "<"
          THEN [s[j] EXCEPT !.n = IF closes(j) THEN 0 ELSE @]
          ELSE IF s[j].ch = ">"
          THEN [s[j] EXCEPT !.n = IF inside(j) THEN @ - 1 ELSE @]
          ELSE [s[j] EXCEPT !.n = IF inside(j) /\ closes(j) THEN 0 ELSE @]])

\* The runs of s up to the first that is not white space
RECURSIVE leadingSpace(_)
leadingSpace(s) ==
    IF s # <<>> /\ IsSpace(s[1].ch) THEN <<s[1]>> \o leadingSpace(Tail(s)) ELSE <<>>

\* .replace(/\s{3,}/g, '  ')
RECURSIVE collapseSpace(_)
collapseSpace(s) ==
    IF s = <<>> THEN <<>>
    ELSE IF IsSpace(s[1].ch)
    THEN LET ws == leadingSpace(s)
             rest == collapseSpace(SubSeq(s, Len(ws) + 1, Len(s)))
         IN IF StrLen(ws) >= 3 THEN Normalize(Repeat(" ", 2) \o rest)
            ELSE Normalize(ws \o rest)
    ELSE Normalize(<<s[1]>> \o collapseSpace(Tail(s)))

\* sanitizeMessage returns null
Null == <<[ch |-> "null", n |-> 0]>>

\* chat.js: sanitizeMessage
sanitizeMessage(text) ==
    LET stripped == stripTags(text)
        trimmed == collapseSpace(trim(stripped))
    IN IF StrLen(trimmed) = 0 \/ StrLen(trimmed) > 500 THEN Null ELSE trimmed

CRISIS_WORDS == {
    \* suicide
    Str(<<"s", "u", "i", "c", "i", "d", "e">>),
    \* suicider
    Str(<<"s", "u", "i", "c", "i", "d", "e", "r">>),
    \* mourir
    Str(<<"m", "o", "u", "r", "i", "r">>),
    \* me tuer
    Str(<<"m", "e", " ", "t", "u", "e", "r">>),
    \* en finir
    Str(<<"e", "n", " ", "f", "i", "n", "i", "r">>),
    \* plus envie de vivre
    Str(<<"p", "l", "u", "s", " ", "e", "n", "v", "i", "e", " ", "d", "e", " ", "v", "i", "v", "r", "e">>),
    \* plus la force
    Str(<<"p", "l", "u", "s", " ", "l", "a", " ", "f", "o", "r", "c", "e">>),
    \* tout arre^ter
    Str(<<"t", "o", "u", "t", " ", "a", "r", "r", "e^", "t", "e", "r">>),
    \* automutilation
    Str(<<"a", "u", "t", "o", "m", "u", "t", "i", "l", "a", "t", "i", "o", "n">>),
    \* me faire mal
    Str(<<"m", "e", " ", "f", "a", "i", "r", "e", " ", "m", "a", "l">>),
    \* me blesser
    Str(<<"m", "e", " ", "b", "l", "e", "s", "s", "e", "r">>),
    \* ide/es noires
    Str(<<"i", "d", "e/", "e", "s", " ", "n", "o", "i", "r", "e", "s">>),
    \* souffrance insupportable
    Str(<<"s", "o", "u", "f", "f", "r", "a", "n", "c", "e", " ", "i", "n", "s", "u", "p", "p", "o", "r", "t", "a", "b", "l", "e">>),
    \* je vais craquer
    Str(<<"j", "e", " ", "v", "a", "i", "s", " ", "c", "r", "a", "q", "u", "e", "r">>),
    \* je n'en peux plus
    Str(<<"j", "e", " ", "n", "'", "e", "n", " ", "p", "e", "u", "x", " ", "p", "l", "u", "s">>)}

\* sendMessage step 3: CRISIS_WORDS.some(kw => text.toLowerCase().includes(kw.toLowerCase()))
crisisCheck(text) ==
    \E kw \in CRISIS_WORDS : includes(toLowerCase(text), toLowerCase(kw))

---------------------------------------------------------------------------
(* chat.js: rateLimiter *)

MAX == 10
WINDOW == 30000

\* Math.ceil(ms / 1000)
ceilSeconds(ms) == (ms + 999) \div 1000

\* (mutant) check() without its filter
filterRecent_keepsAll(stamps, t) == stamps

\* this.timestamps.filter(t => now - t < this.WINDOW)
filterRecent(stamps, t) == SelectSeq(stamps, LAMBDA x : t - x < WINDOW)

\* (mutant) check() pushing the attempt before it tests the length
check_recordsRefused(stamps, t) ==
    LET kept == filterRecent(stamps, t) IN
    IF Len(kept) >= MAX
    THEN [allowed |-> FALSE, wait |-> ceilSeconds(WINDOW - (t - kept[1])),
          timestamps |-> Append(kept, t)]
    ELSE [allowed |-> TRUE, wait |-> 0, timestamps |-> Append(kept, t)]

\* rateLimiter.check() at time t: the answer and the timestamps it leaves
check(stamps, t) ==
    LET kept == filterRecent(stamps, t) IN
    IF Len(kept) >= MAX
    THEN [allowed |-> FALSE, wait |-> ceilSeconds(WINDOW - (t - kept[1])),
          timestamps |-> kept]
    ELSE [allowed |-> TRUE, wait |-> 0, timestamps |-> Append(kept, t)]

---------------------------------------------------------------------------
(* rateLimiter.js: messageLimiter (express-rate-limit, keyed by req.ip) *)

messageLimiterMax == 20
messageLimiterWindowMs == 60000

\* The store's increment for one key at time t: a new window opens when the
\* previous one has elapsed
increment(h, t) ==
    LET cur == IF t >= h.resetTime
               THEN [totalHits |-> 0, resetTime |-> t + messageLimiterWindowMs]
               ELSE h
    IN [cur EXCEPT !.totalHits = @ + 1]

\* The request is refused (handler, 429) when the key's hits exceed max
limited(h) == h.totalHits > messageLimiterMax

\* handler(req, res, next, options): res.status(429).json(options.message),
\* the body being { error: 'Trop de messages. Attends une minute.' }
tooManyMessages(r) == [r EXCEPT !.pc = "done", !.status = 429, !.retryAfter = NULL]

\* The actor's POSTs counted from the first of the running minute
countPost(s, t) ==
    IF s.nth = 0 \/ t - s.first >= messageLimiterWindowMs
    THEN [nth |-> 1, first |-> t]
    ELSE [s EXCEPT !.nth = @ + 1]

---------------------------------------------------------------------------
(* validators.js: sendMessageRules, validate *)

\* body('content').trim(): the sanitized value replaces req.body.content
sendMessageSanitized(content) == trim(content)

\* .isLength({ min: 1, max: 2000 }); validate answers 422 on failure
sendMessageRules(content) == StrLen(content) >= 1 /\ StrLen(content) <= 2000

---------------------------------------------------------------------------
(* database.js: createMessage *)

\* INSERT INTO messages (user_id, salon_id, content): the row, with the next
\* AUTO_INCREMENT id
insertMessage(userId, content) ==
    Append(messages, [id |-> Len(messages) + 1, user_id |-> userId, salon_id |-> 1,
                      content |-> content, deleted_at |-> NULL])

\* rows[0] || null when the SELECT returns no row
NoMessage == IdleReq.message

\* SELECT m.id, m.content, m.user_id, u.username, u.avatar ... WHERE m.id = ?
selectCreated(insertId) ==
    IF insertId \in DOMAIN messages
    THEN LET m == messages[insertId] IN
         [id |-> m.id, content |-> m.content, user_id |-> m.user_id,
          username |-> username(m.user_id), avatar |-> avatar(m.user_id)]
    ELSE NoMessage

---------------------------------------------------------------------------
(* chat.js sendMessage and routes_messages.js POST / *)

\* "I want to end it all"
ScenarioText == Str(<<"I", " ", "w", "a", "n", "t", " ", "t", "o", " ", "e", "n", "d", " ", "i", "t", " ", "a", "l", "l">>)
\* "Je veux EN FINIR"
DistressText == Str(<<"J", "e", " ", "v", "e", "u", "x", " ", "E", "N", " ", "F", "I", "N", "I", "R">>)

\* What is typed in the page's input
Inputs == {Str(<<" ", "\n">>), Str(<<" ", "a", " ">>),
           Str(<<"<", "b", ">", "a", "<", "/", "b", ">">>),
           Str(<<"a", " ", "\n", " ", "<">>),
           Repeat("z", 500), Repeat("z", 501),
           ScenarioText, DistressText}

\* What another HTTP client puts in the body's content
Bodies == {Str(<<" ">>), Str(<<"a", " ">>),
           Str(<<"<", "b", ">", "a", "<", "/", "b", ">">>),
           Repeat("z", 501), Repeat("z", 2001)}

\* The network origin of the page of actor u
Origin(u) == CHOOSE ip \in IPs : ip = u

\* The pages of actor u, by their sockets; 0 is a page whose socket is not open
PagesOf(u) ==
    {0} \cup {s \in Sockets : hs[s].pc = "connected" /\ hs[s].user.id = u}

\* chat.js sendMessage, steps 1 to 4, in the page of actor u: the limiter,
\* the sanitizer, the crisis check, then the POST, which reaches the server
\* and runs authenticate up to the awaited isTokenRevoked.
BrowserSend(i) ==
    /\ req[i].pc = "idle"
    /\ \A j \in ReqSlots : j < i => req[j].pc # "idle"
    /\ \E u \in Users, input \in Inputs : \E page \in PagesOf(u) :
          LET limit == check(timestamps[u], now)
              text == sanitizeMessage(input)
              r == [IdleReq EXCEPT !.op = "send", !.via = "browser", !.ip = Origin(u),
                       !.token = [kind |-> "jwt", userId |-> u], !.input = input,
                       !.page = page, !.open = DOMAIN connectedUsers]
          IN /\ timestamps' = [timestamps EXCEPT ![u] = limit.timestamps]
             /\ req' = [req EXCEPT ![i] =
                   IF ~limit.allowed
                   THEN [r EXCEPT !.pc = "done", !.local = "rate_limited"]
                   ELSE IF text = Null
                   THEN [r EXCEPT !.pc = "done", !.local = "invalid"]
                   ELSE [r EXCEPT !.pc = "isTokenRevoked", !.local = "posted",
                                  !.crisis = crisisCheck(text), !.content = text]]
    /\ UNCHANGED <<authVars, clientVars, banVars, emitted, storeVars, now, hits, sent>>

\* Another HTTP client posts a body of its choice.
DirectSend(i) ==
    /\ \E token \in ReqTokens, ip \in IPs, body \in Bodies :
          Receive(i, [IdleReq EXCEPT !.op = "send", !.via = "direct", !.ip = ip,
                         !.token = token, !.input = body, !.content = body])
    /\ UNCHANGED <<authVars, limitVars, clientVars, banVars, emitted, storeVars>>

\* The store answers findUserById; authenticate finishes, then messageLimiter,
\* sendMessageRules and validate run, and the handler issues createMessage's
\* INSERT.
SendFindUser(i) ==
    /\ req[i].pc = "findUserById"
    /\ req[i].op = "send"
    /\ LET user == findUserById(req[i].token.userId)
           code == authenticateUser(user)
           h == increment(hits[req[i].ip], now)
           content == sendMessageSanitized(req[i].content)
           post == IF code # 0 THEN sent[req[i].token.userId]
                   ELSE countPost(sent[user.id], now)
       IN /\ hits' = IF code # 0 THEN hits ELSE [hits EXCEPT ![req[i].ip] = h]
          /\ sent' = IF code # 0 THEN sent ELSE [sent EXCEPT ![user.id] = post]
          /\ req' = [req EXCEPT ![i] =
                IF code # 0 THEN Respond(@, code)
                ELSE IF limited(h)
                THEN tooManyMessages([@ EXCEPT !.user = user, !.nth = post.nth])
                ELSE IF ~sendMessageRules(content)
                THEN Respond([@ EXCEPT !.user = user, !.content = content,
                                       !.nth = post.nth], 422)
                ELSE [@ EXCEPT !.user = user, !.content = content,
                               !.nth = post.nth, !.pc = "insertMessage"]]
    /\ UNCHANGED <<authVars, clientVars, banVars, emitted, storeVars, now, timestamps>>

\* (mutant) the handler taking the author from the body when it names one
createAuthor_fromBody(r) == IF r.user_id # 0 THEN r.user_id ELSE r.user.id

\* POST /, line 121: the first argument of db.createMessage is req.user.id
createAuthor(r) == r.user.id

\* The store executes createMessage's INSERT, or fails; on success the SELECT
\* of the created row is issued, on failure the route's catch answers 500.
SendInsert(i) ==
    /\ req[i].pc = "insertMessage"
    /\ \/ /\ messages' = insertMessage(createAuthor(req[i]), req[i].content)
          /\ req' = [req EXCEPT ![i] =
                        [@ EXCEPT !.pc = "selectCreated",
                                  !.insertId = Len(messages) + 1]]
       \/ /\ req' = [req EXCEPT ![i] = Respond(@, 500)]
          /\ UNCHANGED messages
    /\ UNCHANGED <<moods, authVars, limitVars, clientVars, banVars, emitted, reports, reactions>>

\* The store answers createMessage's SELECT with the row, with no row (the
\* join finds nothing), or fails.
SendSelect(i) ==
    /\ req[i].pc = "selectCreated"
    /\ \/ req' = [req EXCEPT ![i] =
                     [@ EXCEPT !.pc = "diffuseMessage",
                               !.message = selectCreated(req[i].insertId)]]
       \/ req' = [req EXCEPT ![i] =
                     [@ EXCEPT !.pc = "diffuseMessage", !.message = NoMessage]]
       \/ req' = [req EXCEPT ![i] = Respond(@, 500)]
    /\ UNCHANGED <<authVars, limitVars, clientVars, banVars, emitted, storeVars>>

\* (mutant) the handler without its test of the created row
sendAnswer_noNullCheck(message) == 201

\* POST /, lines 123-133: 500 when createMessage returned null, else 201
sendAnswer(message) == IF message = NoMessage THEN 500 ELSE 201

\* POST /, lines 121-133: the handler resumes with the created row, calls
\* diffuseMessage and answers.
SendDiffuse(i) ==
    /\ req[i].pc = "diffuseMessage"
    /\ LET code == sendAnswer(req[i].message) IN
          /\ IF code = 201
             THEN Emit([event |-> "new_message", data |-> req[i].message,
                        to |-> Everyone])
             ELSE UNCHANGED emitted
          /\ req' = [req EXCEPT ![i] = Respond(@, code)]
    /\ UNCHANGED <<authVars, limitVars, clientVars, banVars, storeVars>>

---------------------------------------------------------------------------
(* The send specification *)

\* The limiters after nine attempts of each page and nineteen hits of each
\* origin, all at time 0
StoredTimestamps == [u \in Users |-> [k \in 1..(MAX - 1) |-> 0]]
StoredHits == [ip \in IPs |-> [totalHits |-> messageLimiterMax - 1,
                               resetTime |-> messageLimiterWindowMs]]

InitSend ==
    /\ is_banned = [u \in Users |-> FALSE]
    /\ revoked_tokens = {}
    /\ clock = 0
    /\ connectedUsers = <<>>
    /\ hs = [s \in Sockets |-> IdleHs]
    /\ adminReq = [i \in AdminSlots |-> IdleAdminReq]
    /\ emitted = <<>>
    /\ messages = StoredMessages
    /\ reports = {}
    /\ reactions = {}
    /\ req = [i \in ReqSlots |-> IdleReq]
    /\ \/ now = 0 /\ timestamps = NoTimestamps /\ hits = NoHits
       \/ now \in {0, WINDOW} /\ timestamps = StoredTimestamps /\ hits = StoredHits
    /\ sent = NoSent
    /\ pages = NoPages
    /\ localStorage = <<>>
    /\ lastCheck = NoCheck
    /\ moods = <<>>

NextSend ==
    \/ \E i \in ReqSlots : BrowserSend(i)
    \/ \E i \in ReqSlots : DirectSend(i)
    \/ \E i \in ReqSlots : ReqRevoked(i)
    \/ \E i \in ReqSlots : SendFindUser(i)
    \/ \E i \in ReqSlots : SendInsert(i)
    \/ \E i \in ReqSlots : SendSelect(i)
    \/ \E i \in ReqSlots : SendDiffuse(i)

SpecSend == InitSend /\ [][NextSend]_vars

---------------------------------------------------------------------------
(* Claims on the message pipeline *)

Send(r) == r.op = "send"

\* The positions of the new_message events in what was emitted
NewMessages == {k \in 1..Len(emitted) : emitted[k].event = "new_message"}

\* A row of the messages table is what the event carries
Stored(data) ==
    /\ data.id \in DOMAIN messages
    /\ messages[data.id].id = data.id
    /\ messages[data.id].content = data.content
    /\ messages[data.id].user_id = data.user_id

\* C8: every new_message carries a row of the messages table and no row is
\* broadcast twice; the sends answered 201 are exactly those broadcast, so a
\* send whose INSERT or SELECT failed or returned no row is answered 500 and
\* broadcasts nothing.
C8_PersistedBeforeBroadcastOnce ==
    /\ \A k \in NewMessages : Stored(emitted[k].data)
    /\ \A k, l \in NewMessages : emitted[k].data.id = emitted[l].data.id => k = l
    /\ \A k \in NewMessages :
          \E i \in ReqSlots : /\ Send(req[i]) /\ Done(req[i]) /\ req[i].status = 201
                              /\ req[i].insertId = emitted[k].data.id
    /\ \A i \in ReqSlots :
          (Send(req[i]) /\ Done(req[i]) /\ req[i].status = 201) =>
              \E k \in NewMessages : emitted[k].data.id = req[i].insertId
    /\ \A i \in ReqSlots :
          (Send(req[i]) /\ Done(req[i]) /\ req[i].local # "rate_limited"
             /\ req[i].local # "invalid" /\ req[i].status # 201) =>
              /\ req[i].status \in {401, 403, 422, 429, 500}
              /\ \A k \in NewMessages : emitted[k].data.id # req[i].insertId
    /\ \A i \in ReqSlots :
          (Send(req[i]) /\ Done(req[i]) /\ req[i].insertId # 0
             /\ req[i].message = NoMessage) => req[i].status = 500

\* Witness of C8: one send was stored, read back and broadcast, and another
\* was stored but its row was not returned, and was answered 500
C8_Witness ==
    \E i, j \in ReqSlots :
        /\ Send(req[i]) /\ Done(req[i]) /\ req[i].status = 201
        /\ \E k \in NewMessages : emitted[k].data.id = req[i].insertId
        /\ Send(req[j]) /\ Done(req[j]) /\ req[j].status = 500
        /\ req[j].insertId # 0

\* The text holds a markup tag: a '<' with a '>' after it
containsTag(text) == stripTags(text) # text

\* What the sanitizer is specified to reject
Rejected(text) ==
    \/ StrLen(trim(text)) = 0
    \/ StrLen(text) > 500
    \/ containsTag(text)

\* C9: no content that is empty after trimming, longer than 500 characters
\* or still containing a markup tag is stored in the messages table or
\* emitted as new_message, whichever client posts it.
C9_RejectedContentNeverStored ==
    /\ \A id \in DOMAIN messages : ~Rejected(messages[id].content)
    /\ \A k \in NewMessages : ~Rejected(emitted[k].data.content)

\* A send made by chat.js that reached the server
Posted(r) == Send(r) /\ r.via = "browser" /\ r.local = "posted"

\* What a posted text must look like after sanitizeMessage
Sanitized(r) ==
    /\ ~Rejected(r.content)
    /\ trim(r.content) = r.content
    /\ ~includes(r.content, Repeat(" ", 3))

\* The send was delivered: stored and broadcast with the content posted
Delivered(r) ==
    /\ r.insertId \in DOMAIN messages
    /\ messages[r.insertId].content = r.content
    /\ messages[r.insertId].user_id = r.token.userId
    /\ \E k \in NewMessages : /\ emitted[k].data.id = r.insertId
                              /\ emitted[k].data.content = r.content

\* C10: a text that passes the page's limiter and sanitizer is delivered with
\* its content unchanged whether or not it matches a distress phrase, and the
\* crisis signal is raised for the scenario text "I want to end it all".
C10_ScenarioRaisesCrisisSignal ==
    \A i \in ReqSlots :
        Posted(req[i]) =>
            /\ (Done(req[i]) /\ req[i].status = 201) => Delivered(req[i])
            /\ req[i].input = ScenarioText => req[i].crisis

\* What the code does guarantee around the crisis check: it never stops a
\* send.  Every text that passes the page's limiter and sanitizer is posted,
\* whatever the check says; the server never refuses it for its content (no
\* 422), and when it answers 201 the text is stored and broadcast as posted.
\* The alert is shown for a text holding a phrase of CRISIS_WORDS in any
\* letter case ("Je veux EN FINIR"), and not for "I want to end it all",
\* which holds none.
CrisisCheckNeverGates ==
    \A i \in ReqSlots :
        /\ (Send(req[i]) /\ req[i].via = "browser" /\ req[i].pc # "idle"
              /\ req[i].local # "rate_limited") =>
              /\ (req[i].local = "posted") =
                    (StrLen(collapseSpace(trim(stripTags(req[i].input)))) \in 1..500)
        /\ Posted(req[i]) =>
              /\ Sanitized(req[i])
              /\ Done(req[i]) => req[i].status \in {201, 401, 403, 429, 500}
              /\ (Done(req[i]) /\ req[i].status = 201) => Delivered(req[i])
              /\ req[i].input = DistressText => req[i].crisis
              /\ req[i].input = ScenarioText => ~req[i].crisis
              /\ req[i].input = Repeat("z", 500) => ~req[i].crisis

---------------------------------------------------------------------------
(* chat.js: what a page does with the events of its socket and with the
   answer to its POST *)

\* The events io.emit and socket.emit hand to socket s: those emitted from its
\* registration on (io.on('connection') ends with the socket's own
\* online_count).  0 when s was never registered.
joined(s) ==
    LET own == {k \in 1..Len(emitted) : emitted[k].to = s} IN
    IF own = {} THEN 0 ELSE (CHOOSE k \in own : \A l \in own : l <= k) - 1

\* The event socket s handles next, 0 when none is waiting
nextEvent(s) ==
    LET from == IF pages[s].cursor < joined(s) THEN joined(s) ELSE pages[s].cursor + 1
        mine == {k \in from..Len(emitted) : Addressed(emitted[k].to, s)}
    IN IF joined(s) = 0 \/ mine = {} THEN 0
       ELSE CHOOSE k \in mine : \A l \in mine : k <= l

\* appendMessage: the row added to #messages-wrap; id is data-message-id, 0
\* when appendMessage is given no id and sets no attribute.  Observations:
\* the call the row comes from, and the message it shows
appendMessage(rows, id, text, isOwn, origin, shows) ==
    Append(rows, [id |-> id, text |-> text, isOwn |-> isOwn, origin |-> origin,
                  shows |-> shows])

\* loadMessages, lines 761-783: the rows of the page are removed, then one row
\* is appended per message of the answer, without id
RECURSIVE loadRows(_, _, _)
loadRows(rows, list, userId) ==
    IF list = <<>> THEN rows
    ELSE loadRows(appendMessage(rows, 0, list[1].content, list[1].user_id = userId,
                                "history", list[1].id),
                  Tail(list), userId)
loadMessages(list, userId) == loadRows(<<>>, list, userId)

\* socket.on('new_message') and the other handlers of initSocket, as far as
\* the displayed rows go
onEvent(rows, ev, userId) ==
    IF ev.event = "new_message"
    THEN appendMessage(rows, ev.data.id, ev.data.content,
                       ev.data.user_id = userId, "new_message", ev.data.id)
    ELSE IF ev.event = "message_deleted"
    THEN SelectSeq(rows, LAMBDA row : row.id # ev.data)
    ELSE rows

\* The page of socket s handles the next event of its socket.
PageReceive(s) ==
    /\ hs[s].pc = "connected"
    /\ nextEvent(s) # 0
    /\ pages' = [pages EXCEPT ![s] =
                    [cursor |-> nextEvent(s),
                     rows |-> onEvent(@.rows, emitted[nextEvent(s)], hs[s].user.id)]]
    /\ UNCHANGED <<authVars, limitVars, banVars, emitted, httpVars,
                   localStorage, lastCheck>>

\* (mutant) the older chat.js, which displays the message of the POST's answer
afterPost_rendersAnswer(rows, data) ==
    IF data.status = 201
    THEN appendMessage(rows, 0, data.message.content, TRUE, "answer", data.message.id)
    ELSE rows

\* sendMessage, lines 952-964: what the page displays once the POST has
\* answered -- nothing, the message comes with new_message
afterPost(rows, data) == rows

\* sendMessage resumes after await apiRequest('/messages').
PageAnswered(i) ==
    /\ Done(req[i]) /\ req[i].op = "send" /\ req[i].local = "posted"
    /\ ~req[i].resumed
    /\ req' = [req EXCEPT ![i].resumed = TRUE]
    /\ pages' = [s \in Sockets |->
                    IF s = req[i].page
                    THEN [pages[s] EXCEPT !.rows = afterPost(@, req[i])]
                    ELSE pages[s]]
    /\ UNCHANGED <<authVars, limitVars, banVars, emitted, storeVars,
                   localStorage, lastCheck>>

---------------------------------------------------------------------------
(* The delivery specification: pages with sockets that send messages *)

\* What is typed in the pages of this specification
DeliveryInputs == {Str(<<" ", "a", " ">>)}

\* Socket s is the open socket of the page of actor s: the state reached once
\* both handshakes have succeeded, in order, and both pages have handled the
\* online_count events.
OpenSockets ==
    [s \in Sockets |-> [pc |-> "connected",
                        token |-> [kind |-> "jwt", userId |-> s],
                        user |-> findUserById(s), seen |-> NoSeen,
                        heard |-> <<>>]]
OpenRegistry ==
    [s \in Sockets |-> [userId |-> s, username |-> username(s), avatar |-> avatar(s)]]
OpenEmitted ==
    [k \in 1..(2 * MaxSockets) |->
        [event |-> "online_count", data |-> (k + 1) \div 2,
         to |-> IF k % 2 = 1 THEN Everyone ELSE k \div 2]]

InitDelivery ==
    /\ is_banned = [u \in Users |-> FALSE]
    /\ revoked_tokens = {}
    /\ clock = 0
    /\ connectedUsers = OpenRegistry
    /\ hs = OpenSockets
    /\ adminReq = [i \in AdminSlots |-> IdleAdminReq]
    /\ emitted = OpenEmitted
    /\ messages = StoredMessages
    /\ reports = {}
    /\ reactions = {}
    /\ req = [i \in ReqSlots |-> IdleReq]
    /\ now = 0
    /\ timestamps = NoTimestamps
    /\ hits = NoHits
    /\ sent = NoSent
    /\ pages = [s \in Sockets |-> [cursor |-> Len(OpenEmitted), rows |-> <<>>]]
    /\ localStorage = <<>>
    /\ lastCheck = NoCheck
    /\ moods = <<>>

NextDelivery ==
    \/ \E s \in Sockets : OnDisconnect(s)
    \/ \E i \in ReqSlots : BrowserSend(i) /\ req'[i].input \in DeliveryInputs
    \/ \E i \in ReqSlots : ReqRevoked(i)
    \/ \E i \in ReqSlots : SendFindUser(i)
    \/ \E i \in ReqSlots : SendInsert(i)
    \/ \E i \in ReqSlots : SendSelect(i)
    \/ \E i \in ReqSlots : SendDiffuse(i)
    \/ \E i \in ReqSlots : PageAnswered(i)
    \/ \E s \in Sockets : PageReceive(s)

SpecDelivery == InitDelivery /\ [][NextDelivery]_vars

---------------------------------------------------------------------------
(* Claims on delivery *)

\* The rows of the page of socket s that show message id
RowsOf(s, id) == {k \in 1..Len(pages[s].rows) : pages[s].rows[k].id = id}

\* The new_message events that carry message id, by position
BroadcastsOf(id) == {k \in NewMessages : emitted[k].data.id = id}

\* Socket s is open and its page has handled every event sent to it
CaughtUp(s) == hs[s].pc = "connected" /\ nextEvent(s) = 0

\* A send by chat.js that was answered 201
Sent(r) == Posted(r) /\ Done(r) /\ r.status = 201

---------------------------------------------------------------------------
(* security.js: Security.checkRateLimit *)

\* What localStorage does during a call: it works, getItem throws, or setItem
\* throws (storage disabled or full)
StorageOutcomes == {"ok", "getItem throws", "setItem throws"}

\* checkRateLimit(action, maxAttempts, windowMs) at time t, the key holding
\* stored: the boolean returned and what the key holds afterwards
checkRateLimit(stored, t, maxAttempts, windowMs, storage) ==
    LET attempts == SelectSeq(stored, LAMBDA x : t - x < windowMs) IN
    IF storage = "getItem throws" THEN [allowed |-> TRUE, stored |-> stored]
    ELSE IF Len(attempts) >= maxAttempts THEN [allowed |-> FALSE, stored |-> stored]
    ELSE IF storage = "setItem throws" THEN [allowed |-> TRUE, stored |-> <<>>]
    ELSE [allowed |-> TRUE, stored |-> Append(attempts, t)]

---------------------------------------------------------------------------
(* The limiter specification: one page calls its limiters as time passes *)

TickMs == 7500
MaxTicks == 6
MaxCalls == 12

\* The page whose limiter is called
LimiterUser == 1

\* The (maxAttempts, windowMs) checkRateLimit is called with: its defaults, or
\* a short window
LimiterParams == {[max |-> 5, window |-> 60000], [max |-> 2, window |-> 15000]}

\* Time passes.
Tick ==
    /\ now < MaxTicks * TickMs
    /\ now' = now + TickMs
    /\ UNCHANGED <<authVars, banVars, emitted, httpVars, timestamps, hits, sent, clientVars>>

\* The number of the call, and the time of the first call, of a limiter
nthCall(limiter) == IF lastCheck.limiter = limiter THEN lastCheck.nth + 1 ELSE 1
firstCall(limiter) == IF lastCheck.limiter = limiter THEN lastCheck.first ELSE now

\* sendMessage step 1: rateLimiter.check() (the send goes no further than
\* the limiter or the sanitizer).
LimiterCheck ==
    /\ lastCheck.limiter \in {None, "rateLimiter"}
    /\ lastCheck.nth < MaxCalls
    /\ LET limit == check(timestamps[LimiterUser], now) IN
          /\ timestamps' = [timestamps EXCEPT ![LimiterUser] = limit.timestamps]
          /\ lastCheck' = [limiter |-> "rateLimiter", at |-> now,
                           before |-> timestamps[LimiterUser],
                           after |-> limit.timestamps,
                           max |-> MAX, window |-> WINDOW, storage |-> "ok",
                           allowed |-> limit.allowed, wait |-> limit.wait,
                           nth |-> nthCall("rateLimiter"),
                           first |-> firstCall("rateLimiter")]
    /\ UNCHANGED <<authVars, banVars, emitted, httpVars, now, hits, sent, pages, localStorage>>

\* Security.checkRateLimit(action, maxAttempts, windowMs) is called.
StorageCheck ==
    /\ lastCheck.limiter \in {None, "checkRateLimit"}
    /\ lastCheck.nth < MaxCalls
    /\ \E p \in LimiterParams, storage \in StorageOutcomes :
          /\ lastCheck.limiter = "checkRateLimit" =>
                (p.max = lastCheck.max /\ p.window = lastCheck.window)
          /\ LET res == checkRateLimit(localStorage, now, p.max, p.window, storage) IN
                /\ localStorage' = res.stored
                /\ lastCheck' = [limiter |-> "checkRateLimit", at |-> now,
                                 before |-> localStorage, after |-> res.stored,
                                 max |-> p.max, window |-> p.window,
                                 storage |-> storage,
                                 allowed |-> res.allowed, wait |-> 0,
                                 nth |-> nthCall("checkRateLimit"),
                                 first |-> firstCall("checkRateLimit")]
    /\ UNCHANGED <<authVars, banVars, emitted, httpVars, limitVars, pages>>

InitLimiter == InitReact /\ reactions = {}

NextLimiter == Tick \/ LimiterCheck \/ StorageCheck

SpecLimiter == InitLimiter /\ [][NextLimiter]_vars

---------------------------------------------------------------------------
(* Claims on the client-side limiters *)

\* The recorded attempts still inside the window at the last call
InWindow == SelectSeq(lastCheck.before,
                      LAMBDA x : lastCheck.at - x < lastCheck.window)

\* The last call was allowed and recorded
Recorded ==
    /\ lastCheck.allowed
    /\ lastCheck.after = Append(InWindow, lastCheck.at)

\* The last call was refused with a retry-after of 1 second to the window
RefusedWithRetryAfter ==
    /\ ~lastCheck.allowed
    /\ lastCheck.wait >= 1
    /\ lastCheck.wait * 1000 <= lastCheck.window

\* The sliding-window contract, of the last call
FirstCallsAllowed ==
    (lastCheck.nth <= lastCheck.max /\ lastCheck.at - lastCheck.first < lastCheck.window)
        => Recorded
AllowedAfterWindow ==
    (lastCheck.before # <<>> /\ lastCheck.at - lastCheck.before[1] >= lastCheck.window)
        => lastCheck.allowed

\* C12: for a limiter with max N and window W, the first N calls made within
\* W are allowed and recorded, the (N+1)th within W is refused with a
\* retry-after between 1 second and W, and a call made W or more after the
\* oldest recorded call is allowed.
C12_SlidingWindow ==
    lastCheck.limiter # None =>
        /\ FirstCallsAllowed
        /\ (lastCheck.nth = lastCheck.max + 1
              /\ lastCheck.at - lastCheck.first < lastCheck.window)
                 => RefusedWithRetryAfter
        /\ AllowedAfterWindow

\* What the two limiters do: rateLimiter.check() keeps the contract, its
\* retry-after being the time left to the oldest attempt of the window,
\* rounded up to seconds.  Security.checkRateLimit allows and records by the
\* same rule while localStorage works, but it answers a bare boolean (no
\* retry-after), leaves the key as it was when it refuses, allows the call when
\* getItem throws, and allows it and empties the key when setItem throws.
LimitersAsCoded ==
    /\ lastCheck.limiter = "rateLimiter" =>
          /\ FirstCallsAllowed
          /\ (lastCheck.nth = lastCheck.max + 1
                /\ lastCheck.at - lastCheck.first < lastCheck.window)
                   => RefusedWithRetryAfter
          /\ AllowedAfterWindow
          /\ lastCheck.allowed = (Len(InWindow) < lastCheck.max)
          /\ lastCheck.allowed => Recorded
          /\ ~lastCheck.allowed =>
                /\ RefusedWithRetryAfter
                /\ lastCheck.after = InWindow
                /\ (lastCheck.wait - 1) * 1000
                      < InWindow[1] + lastCheck.window - lastCheck.at
                /\ InWindow[1] + lastCheck.window - lastCheck.at
                      <= lastCheck.wait * 1000
    /\ lastCheck.limiter = "checkRateLimit" =>
          /\ AllowedAfterWindow
          /\ lastCheck.wait = 0
          /\ ~lastCheck.allowed => lastCheck.after = lastCheck.before
          /\ lastCheck.storage = "ok" =>
                /\ lastCheck.allowed = (Len(InWindow) < lastCheck.max)
                /\ lastCheck.allowed => Recorded
          /\ lastCheck.storage = "getItem throws" =>
                lastCheck.allowed /\ lastCheck.after = lastCheck.before
          /\ (lastCheck.storage = "setItem throws" /\ lastCheck.allowed) =>
                lastCheck.after = <<>>

---------------------------------------------------------------------------
(* The quota specification: POST /messages, one after the other, over time *)

MaxPosts == 23
MaxHalfMinutes == 3

\* Half a minute passes while no request is in flight.
HalfMinute ==
    /\ \A i \in ReqSlots : req[i].pc \in {"idle", "done"}
    /\ now < MaxHalfMinutes * (messageLimiterWindowMs \div 2)
    /\ now' = now + messageLimiterWindowMs \div 2
    /\ UNCHANGED <<authVars, banVars, emitted, httpVars, timestamps, hits, sent, clientVars>>

\* A client posts "a" with its credential, from an address of its choice, once
\* its previous POST is answered; the second actor and the second address
\* appear when the first actor has posted all but one of the messages of its
\* minute.
QuotaSend ==
    /\ \A i \in ReqSlots : req[i].pc \in {"idle", "done"}
    /\ Len(messages) < Len(StoredMessages) + MaxPosts
    /\ \E u \in Users, ip \in IPs, body \in DeliveryInputs :
          /\ (u # LimiterUser \/ ip # Origin(u)) =>
                sent[LimiterUser].nth >= messageLimiterMax - 1
          /\ hits[ip].totalHits < MaxPosts
          /\ req' = [req EXCEPT ![1] =
                        [IdleReq EXCEPT !.op = "send", !.via = "direct", !.ip = ip,
                                        !.token = [kind |-> "jwt", userId |-> u],
                                        !.input = body, !.content = body,
                                        !.pc = "isTokenRevoked"]]
    /\ UNCHANGED <<authVars, limitVars, clientVars, banVars, emitted, storeVars>>

InitQuota == InitReact /\ reactions = {}

NextQuota ==
    \/ HalfMinute
    \/ QuotaSend
    \/ \E i \in ReqSlots : ReqRevoked(i)
    \/ \E i \in ReqSlots : SendFindUser(i)
    \/ \E i \in ReqSlots : SendInsert(i) /\ messages' # messages
    \/ \E i \in ReqSlots : SendSelect(i) /\ req'[i].message # NoMessage
    \/ \E i \in ReqSlots : SendDiffuse(i)

SpecQuota == InitQuota /\ [][NextQuota]_vars

---------------------------------------------------------------------------
(* Claims on the server's limit of messages *)

\* The POSTs that reached messageLimiter and are answered
Answered == {i \in ReqSlots : /\ req[i].op = "send"
                              /\ req[i].pc = "done"
                              /\ req[i].nth > 0}

\* The POST of slot i was neither stored nor broadcast: no INSERT was issued
\* for it, and the rows added and the events broadcast are those of the other
\* POSTs, one each
Dropped(i) ==
    /\ req[i].insertId = IdleReq.insertId
    /\ req[i].message = NoMessage
    /\ \A k \in NewMessages : emitted[k].data.id \in DOMAIN messages
    /\ Cardinality(NewMessages) = Len(messages) - Len(StoredMessages)

\* C13: of the POST /messages an actor sends within 60 seconds, the first 20
\* are not rate-limited; the 21st is answered 429 with a retryAfter of 1 to 60
\* seconds, and is neither stored nor broadcast.
C13_TwentyFirstMessageRefused ==
    \A i \in Answered :
        /\ req[i].nth <= messageLimiterMax => req[i].status # 429
        /\ req[i].nth = messageLimiterMax + 1 =>
              /\ req[i].status = 429
              /\ req[i].retryAfter \in 1..(messageLimiterWindowMs \div 1000)
              /\ Dropped(i)

\* What the limiter does: it counts the POSTs of an address, whoever sends
\* them; the POST that finds more than 20 counted in the address's minute is
\* answered 429 with the error text alone, and is neither stored nor broadcast.
LimitedByAddress ==
    \A i \in Answered :
        /\ req[i].status = 429 <=> hits[req[i].ip].totalHits > messageLimiterMax
        /\ req[i].status = 429 => (req[i].retryAfter = NULL /\ Dropped(i))
        /\ req[i].status # 429 => req[i].status = 201

\* C14: the limit of messages is kept per actor: a POST is refused (429) only
\* when the actor's own POSTs of the minute exceed the limit, whatever the
\* other actors sent, and it is then refused from whatever address it comes.
C14_QuotaPerActor ==
    \A i \in Answered :
        req[i].status = 429 <=> req[i].nth > messageLimiterMax

---------------------------------------------------------------------------
(* The session specification: credentials, revocations and bans *)

\* The revocation list holds the hash of the credential of user 2, unexpired,
\* and the hash of the credential of user 1 in a row that has expired.
StoredRevocations ==
    {[token_hash |-> sha256([kind |-> "jwt", userId |-> 2]), user_id |-> 2,
      expires_at |-> 1],
     [token_hash |-> sha256([kind |-> "jwt", userId |-> 1]), user_id |-> 1,
      expires_at |-> 0]}

InitSession ==
    /\ is_banned \in {[u \in Users |-> FALSE], [u \in Users |-> u = 2]}
    /\ revoked_tokens \in {{}, StoredRevocations}
    /\ clock = 0
    /\ connectedUsers = <<>>
    /\ hs = [s \in Sockets |-> IdleHs]
    /\ adminReq = [i \in AdminSlots |-> IdleAdminReq]
    /\ emitted = <<>>
    /\ messages = <<>>
    /\ reports = {}
    /\ reactions = {}
    /\ req = <<>>
    /\ now = 0
    /\ timestamps = NoTimestamps
    /\ hits = NoHits
    /\ sent = NoSent
    /\ pages = NoPages
    /\ localStorage = <<>>
    /\ lastCheck = NoCheck
    /\ moods = <<>>

SpecSession == InitSession /\ [][NextBan]_vars

---------------------------------------------------------------------------
(* Claims on credentials and bans *)

\* The credential of a request or handshake r is missing, fails jwt.verify
\* (signature or expiry), or has its hash in the revocation list, unexpired
Unauthenticated(r) ==
    \/ r.token.kind = "missing"
    \/ ~jwtVerifies(r.token)
    \/ r.seen.revoked

\* The handshake of socket s got past io.use
Admitted(s) == hs[s].pc \in {"accepted", "connected", "closed"}

\* C15: a request or handshake whose credential is missing, badly signed,
\* expired or revoked (unexpired entry) is refused as unauthenticated: the
\* HTTP request is answered 401, the handshake is refused, and the socket
\* never enters the registry.
C15_UnauthenticatedRefused ==
    /\ \A i \in AdminSlots :
          (adminReq[i].pc # "idle" /\ Unauthenticated(adminReq[i])) =>
             /\ adminReq[i].pc \in {"isTokenRevoked", "done"}
             /\ adminReq[i].pc = "done" => adminReq[i].status = 401
    /\ \A s \in Sockets :
          (hs[s].pc # "idle" /\ Unauthenticated(hs[s])) =>
             /\ ~Admitted(s)
             /\ s \notin DOMAIN connectedUsers

\* What holds of HTTP requests: authenticate answers 401 to every such request
HttpRefusesUnauthenticated ==
    \A i \in AdminSlots :
        (adminReq[i].pc # "idle" /\ Unauthenticated(adminReq[i])) =>
           /\ adminReq[i].pc \in {"isTokenRevoked", "done"}
           /\ adminReq[i].pc = "done" => adminReq[i].status = 401

\* No unban of actor u has reached the store
NeverUnbanned(u) ==
    \A j \in AdminSlots :
        (adminReq[j].op = "unban" /\ adminReq[j].target = u) =>
            \/ adminReq[j].pc \in {"idle", "isTokenRevoked", "findUserById", "update"}
            \/ adminReq[j].pc = "done" /\ adminReq[j].status # 200

\* The request or handshake r arrived with a signed credential of an actor
\* whose banned flag was set, and has stayed set
OfBannedActor(r) ==
    /\ jwtVerifies(r.token)
    /\ r.seen.banned
    /\ NeverUnbanned(r.token.userId)

\* C16: once an actor's banned flag is set, every request made with the
\* actor's credential is answered 403 and changes nothing, and every handshake
\* is refused, also when the credential is revoked as well.
C16_BannedAlwaysForbidden ==
    /\ \A i \in AdminSlots :
          (adminReq[i].pc # "idle" /\ OfBannedActor(adminReq[i])) =>
             /\ adminReq[i].pc \in {"isTokenRevoked", "findUserById", "done"}
             /\ adminReq[i].pc = "done" => adminReq[i].status = 403
    /\ \A s \in Sockets :
          (hs[s].pc # "idle" /\ OfBannedActor(hs[s])) =>
             /\ ~Admitted(s)
             /\ s \notin DOMAIN connectedUsers

\* What holds of a banned actor: its requests change nothing and its
\* handshakes are refused; the request is answered 403, or 401 when the
\* credential is revoked as well (the revocation list is read first).
BannedAlwaysRefused ==
    /\ \A i \in AdminSlots :
          (adminReq[i].pc # "idle" /\ OfBannedActor(adminReq[i])) =>
             /\ adminReq[i].pc \in {"isTokenRevoked", "findUserById", "done"}
             /\ adminReq[i].pc = "done" =>
                   adminReq[i].status = IF adminReq[i].seen.revoked THEN 401 ELSE 403
    /\ \A s \in Sockets :
          (hs[s].pc # "idle" /\ OfBannedActor(hs[s])) =>
             /\ ~Admitted(s)
             /\ s \notin DOMAIN connectedUsers

\* A ban of actor u has been answered 200
BanAnswered(u) ==
    \E j \in AdminSlots : /\ adminReq[j].op = "ban"
                          /\ adminReq[j].target = u
                          /\ adminReq[j].pc = "done"
                          /\ adminReq[j].status = 200

\* The bearer credential of actor u
Credential(u) == [kind |-> "jwt", userId |-> u]

\* A request or handshake with the credential of u gets past the authenticator
PassesAuthenticator(u) ==
    \/ \E s \in Sockets : /\ hs[s].token = Credential(u)
                          /\ hs[s].pc = "findUserById"
                          /\ hs'[s].pc = "accepted"
    \/ \E i \in AdminSlots : /\ adminReq[i].token = Credential(u)
                             /\ adminReq[i].pc = "findUserById"
                             /\ adminReq'[i].pc = "update"

\* C17: once a ban of an actor is answered, the revocation list holds the
\* actor's outstanding credential, so that no request or handshake with that
\* credential gets past the authenticator afterwards, even when the banned
\* flag has been cleared in the meantime.
C17_BanRevokesCredentials ==
    /\ [](\A u \in Users : BanAnswered(u) => isTokenRevoked(sha256(Credential(u))))
    /\ [][\A u \in Users : BanAnswered(u) => ~PassesAuthenticator(u)]_vars

---------------------------------------------------------------------------
(* routes_admin.js: GET /reports, PATCH /reports/:id, DELETE /messages/:id;
   routes_messages.js: GET / *)

\* What a client may put in :id of a report: 1 is the stored report
ReportIds == {1, 2}

\* The reports the listing query selects, before ORDER BY and LIMIT: the JOIN
\* keeps every report whose message row exists, soft-deleted or not
selectReports(filter) ==
    {r \in reports : /\ filter # None => r.status = filter
                     /\ r.message_id \in DOMAIN messages}

\* ORDER BY CASE status WHEN 'pending' THEN 0 ELSE 1 END, created_at DESC
\* (reports are created in the order of their ids)
listsBefore(a, b) ==
    \/ a.status = "pending" /\ b.status # "pending"
    \/ (a.status = "pending") = (b.status = "pending") /\ a.id > b.id

RECURSIVE orderReports(_)
orderReports(rows) ==
    IF rows = {} THEN <<>>
    ELSE LET first == CHOOSE a \in rows : \A b \in rows \ {a} : listsBefore(a, b)
         IN <<first>> \o orderReports(rows \ {first})

\* One row of the listing
reportRow(r) ==
    LET m == messages[r.message_id] IN
    [id |-> r.id, reason |-> r.reason, status |-> r.status,
     message_id |-> m.id, message_content |-> m.content,
     message_deleted_at |-> m.deleted_at,
     author_id |-> m.user_id, author_username |-> username(m.user_id),
     author_avatar |-> avatar(m.user_id), author_is_banned |-> is_banned[m.user_id],
     reporter_id |-> r.reporter_id, reporter_username |-> username(r.reporter_id)]

\* The default page of the listing: page 1 of 20 rows
listLimit == 20
listReports(filter) ==
    LET ordered == orderReports(selectReports(filter)) IN
    [k \in 1..(IF Len(ordered) < listLimit THEN Len(ordered) ELSE listLimit) |->
        reportRow(ordered[k])]

\* SELECT COUNT(*) AS total FROM reports r <whereClause>
countReports(filter) ==
    Cardinality({r \in reports : filter # None => r.status = filter})

\* UPDATE reports SET status = ? WHERE id = ?
updateReport(reportId, status) ==
    {IF r.id = reportId THEN [r EXCEPT !.status = status] ELSE r : r \in reports}

\* result.affectedRows of that UPDATE
affectedRows(reportId) == Cardinality({r \in reports : r.id = reportId})

\* (mutant) the history read without its filter on deleted_at
getMessages_unfiltered(limit) ==
    LET from == IF Len(messages) > limit THEN Len(messages) - limit + 1 ELSE 1 IN
    [k \in 1..(Len(messages) - from + 1) |->
        LET m == messages[from + k - 1] IN
        [id |-> m.id, content |-> m.content, user_id |-> m.user_id,
         username |-> username(m.user_id), avatar |-> avatar(m.user_id)]]

\* (mutant) getMessages without its bounds on the limit
safeLimit_unbounded(limit) == limit

\* database.js line 158: Math.min(Math.max(1, parseInt(limit) || 50), 200)
safeLimit(limit) ==
    LET asked == IF limit = NULL \/ limit = 0 THEN 50 ELSE limit
        atLeastOne == IF asked < 1 THEN 1 ELSE asked
    IN IF atLeastOne > 200 THEN 200 ELSE atLeastOne

\* database.js getMessages: the last safeLimit messages that are not
\* soft-deleted, oldest first. The table is kept in order of creation:
\* ORDER BY created_at DESC LIMIT n takes the n last live rows, and
\* rows.reverse() puts them back in that order.
getMessages(limit) ==
    LET live == SelectSeq(messages, LAMBDA m : m.deleted_at = NULL)
        n == safeLimit(limit)
        from == IF Len(live) > n THEN Len(live) - n + 1 ELSE 1
    IN [k \in 1..(Len(live) - from + 1) |->
           LET m == live[from + k - 1] IN
           [id |-> m.id, content |-> m.content, user_id |-> m.user_id,
            username |-> username(m.user_id), avatar |-> avatar(m.user_id)]]

\* The credentials of the admin and of the other actor; the message that
\* moderators delete
ModTokens == {[kind |-> "jwt", userId |-> u] : u \in Users}
ModMessageIds == {1}

\* A request to the admin router arrives; authenticate runs up to the awaited
\* isTokenRevoked.
ModReceiveFor(i, ids) ==
    /\ adminReq[i].pc = "idle"
    /\ \A j \in AdminSlots : j < i => adminReq[j].pc # "idle"
    /\ \E token \in ModTokens :
          \E r \in {[IdleAdminReq EXCEPT !.op = "listReports", !.filter = f]
                       : f \in {None, "pending"}}
                \cup {[IdleAdminReq EXCEPT !.op = "transitionReport",
                                           !.reportId = id, !.body = b]
                       : id \in ReportIds, b \in {"resolved", "rejected", "pending"}}
                \cup {[IdleAdminReq EXCEPT !.op = "moderateDeleteMessage",
                                           !.messageId = id]
                       : id \in ids} :
             LET code == authenticateHeader(token)
                 q == [r EXCEPT !.token = token, !.seen = Seen(token),
                                !.known = reports]
             IN adminReq' = [adminReq EXCEPT ![i] =
                    IF code # 0 THEN Respond(q, code)
                    ELSE [q EXCEPT !.pc = "isTokenRevoked"]]
    /\ UNCHANGED <<authVars, limitVars, clientVars, connectedUsers, hs, emitted, httpVars>>

ModReceive(i) == ModReceiveFor(i, ModMessageIds)

\* GET /reports: the store answers the listing query; the count is issued.
ModSelectReports(i) ==
    /\ adminReq[i].pc = "selectReports"
    /\ adminReq' = [adminReq EXCEPT ![i] =
                       [@ EXCEPT !.pc = "countReports",
                                 !.listing = listReports(adminReq[i].filter)]]
    /\ UNCHANGED <<authVars, limitVars, clientVars, connectedUsers, hs, emitted, httpVars>>

\* GET /reports: the store answers the count; the handler answers.
ModCountReports(i) ==
    /\ adminReq[i].pc = "countReports"
    /\ adminReq' = [adminReq EXCEPT ![i] =
                       Respond([@ EXCEPT !.total = countReports(adminReq[i].filter)], 200)]
    /\ UNCHANGED <<authVars, limitVars, clientVars, connectedUsers, hs, emitted, httpVars>>

\* PATCH /reports/:id: the store commits the UPDATE; the handler answers 404
\* when no row was matched, 200 otherwise.
ModUpdateReport(i) ==
    /\ adminReq[i].pc = "updateReport"
    /\ reports' = updateReport(adminReq[i].reportId, adminReq[i].body)
    /\ adminReq' = [adminReq EXCEPT ![i] =
                       Respond(@, IF affectedRows(@.reportId) = 0 THEN 404 ELSE 200)]
    /\ UNCHANGED <<moods, authVars, limitVars, clientVars, connectedUsers, hs, emitted,
                   messages, reactions, req>>

\* DELETE /messages/:id: the store commits deleteMessage's UPDATE.
ModDeleteUpdate(i) ==
    /\ adminReq[i].pc = "deleteMessage"
    /\ messages' = deleteMessage(adminReq[i].messageId)
    /\ adminReq' = [adminReq EXCEPT ![i].pc = "afterDelete"]
    /\ UNCHANGED <<moods, authVars, limitVars, clientVars, connectedUsers, hs, emitted,
                   reports, reactions, req>>

\* DELETE /messages/:id, lines 148-157: the continuation broadcasts and answers.
ModDeleteAfter(i) ==
    /\ adminReq[i].pc = "afterDelete"
    /\ Emit([event |-> "message_deleted", data |-> adminReq[i].messageId,
             to |-> Everyone])
    /\ adminReq' = [adminReq EXCEPT ![i] = Respond(@, 200)]
    /\ UNCHANGED <<authVars, limitVars, clientVars, connectedUsers, hs, httpVars>>

\* req.query.limit: absent (NULL), 1, or 0 (which getMessagesRules refuses)
LoadLimits == {NULL, 1, 0}

\* The ids of the soft-deleted messages
SoftDeleted == {k \in DOMAIN messages : messages[k].deleted_at # NULL}

\* GET /api/messages arrives.
LoadFrom(i, limits) ==
    /\ \E token \in ModTokens, limit \in limits :
          Receive(i, [IdleReq EXCEPT !.op = "load", !.token = token,
                                     !.limit = limit, !.gone = SoftDeleted])
    /\ UNCHANGED <<authVars, limitVars, clientVars, banVars, emitted, storeVars>>

LoadReceive(i) == LoadFrom(i, LoadLimits)

\* GET /, lines 109-114: the store answers getMessages, or fails.
LoadSelect(i) ==
    /\ req[i].pc = "getMessages"
    /\ \/ req' = [req EXCEPT ![i] =
                     Respond([@ EXCEPT !.rows =
                                 getMessages(IF req[i].limit = NULL THEN 50
                                             ELSE req[i].limit)],
                             200)]
       \/ req' = [req EXCEPT ![i] = Respond(@, 500)]
    /\ UNCHANGED <<authVars, limitVars, clientVars, banVars, emitted, storeVars>>

---------------------------------------------------------------------------
(* The moderation specification *)

\* Message 1 of user 1 and message 2 of user 2 are stored; user 2 has
\* reported message 1, and the report is pending or has been resolved.
ModeratedMessages ==
    StoredMessages \o <<[id |-> 2, user_id |-> 2, salon_id |-> 1,
                         content |-> <<[ch |-> "b", n |-> 1]>>, deleted_at |-> NULL]>>
ModeratedReports ==
    {{[id |-> 1, reporter_id |-> 2, message_id |-> 1, reason |-> "spam",
       status |-> st]} : st \in {"pending", "resolved"}}

InitModeration ==
    /\ is_banned = [u \in Users |-> FALSE]
    /\ revoked_tokens = {}
    /\ clock = 0
    /\ connectedUsers = <<>>
    /\ hs = [s \in Sockets |-> IdleHs]
    /\ adminReq = [i \in AdminSlots |-> IdleAdminReq]
    /\ emitted = <<>>
    /\ messages = ModeratedMessages
    /\ reports \in ModeratedReports
    /\ reactions = {}
    /\ req = [i \in ReqSlots |-> IdleReq]
    /\ now = 0
    /\ timestamps = NoTimestamps
    /\ hits = NoHits
    /\ sent = NoSent
    /\ pages = NoPages
    /\ localStorage = <<>>
    /\ lastCheck = NoCheck
    /\ moods = <<>>

NextModeration ==
    \/ \E i \in AdminSlots : ModReceive(i)
    \/ \E i \in AdminSlots : /\ AdminReceive(i)
                               /\ adminReq'[i].token \in ModTokens
                               /\ adminReq'[i].target = 2
    \/ \E i \in AdminSlots : AdminRevoked(i)
    \/ \E i \in AdminSlots : AdminFindUser(i)
    \/ \E i \in AdminSlots : AdminUpdate(i)
    \/ \E i \in AdminSlots : AdminAfterUpdate(i)
    \/ \E i \in AdminSlots : ModSelectReports(i)
    \/ \E i \in AdminSlots : ModCountReports(i)
    \/ \E i \in AdminSlots : ModUpdateReport(i)
    \/ \E i \in AdminSlots : ModDeleteUpdate(i)
    \/ \E i \in AdminSlots : ModDeleteAfter(i)
    \/ LoadReceive(1)
    \/ \E i \in ReqSlots : ReqRevoked(i)
    \/ \E i \in ReqSlots : ReqFindUser(i)
    \/ \E i \in ReqSlots : LoadSelect(i)

SpecModeration == InitModeration /\ [][NextModeration]_vars

---------------------------------------------------------------------------
(* Claims on moderation *)

\* C18: the status of a report changes only from pending, to resolved or to
\* rejected; a report that is resolved or rejected keeps its status whatever
\* PATCH /reports/:id is sent.
C18_ReportStatusMachine ==
    [][\A r \in reports : \A q \in reports' :
          (q.id = r.id /\ q.status # r.status) =>
              (r.status = "pending" /\ q.status \in {"resolved", "rejected"})]_vars

\* What PATCH /reports/:id does: it writes resolved or rejected over any status
StatusOverwritten ==
    [][\A r \in reports : \A q \in reports' :
          (q.id = r.id /\ q.status # r.status) =>
              q.status \in {"resolved", "rejected"}]_vars

\* The request of slot i comes with the signed credential of an actor that
\* is not an admin
ByNonAdmin(i) ==
    /\ adminReq[i].pc # "idle"
    /\ jwtVerifies(adminReq[i].token)
    /\ adminReq[i].token.userId \notin Admins

\* A step of the request of slot i
StepOf(i) == adminReq'[i] # adminReq[i] /\ adminReq[i].pc # "idle"

\* C19: a request to the admin router (report listing, report transition,
\* message deletion, ban, unban) made by an actor that is not an admin is
\* answered 403 (401 when the actor is unknown), answers no listing, changes
\* nothing in the store or the registry and broadcasts nothing.
C19_ModerationRequiresAdmin ==
    /\ [](\A i \in AdminSlots : ByNonAdmin(i) =>
             /\ adminReq[i].pc \in {"isTokenRevoked", "findUserById", "done"}
             /\ adminReq[i].listing = <<>>
             /\ adminReq[i].pc = "done" =>
                   adminReq[i].status =
                       IF adminReq[i].token.userId \in Users THEN 403 ELSE 401)
    /\ [][\A i \in AdminSlots : (ByNonAdmin(i) /\ StepOf(i)) =>
             UNCHANGED <<is_banned, revoked_tokens, messages, reports, reactions,
                         connectedUsers, emitted>>]_vars

\* Witness of C19: user 2, who is not an admin, has been answered 403 to a
\* report transition and to a message deletion, and report and message are
\* as they were stored
C19_Witness ==
    /\ \E i \in AdminSlots : /\ adminReq[i].op = "transitionReport"
                             /\ adminReq[i].token.userId = 2
                             /\ adminReq[i].reportId = 1
                             /\ adminReq[i].body = "rejected"
                             /\ adminReq[i].status = 403
    /\ \E i \in AdminSlots : /\ adminReq[i].op = "moderateDeleteMessage"
                             /\ adminReq[i].token.userId = 2
                             /\ adminReq[i].status = 403
    /\ reports \in ModeratedReports
    /\ messages = ModeratedMessages
    /\ emitted = <<>>

\* The listing of slot i has been answered by the store, unfiltered
Listed(i) ==
    /\ adminReq[i].op = "listReports"
    /\ adminReq[i].filter = None
    /\ adminReq[i].pc = "countReports" \/ adminReq[i].status = 200

\* The listing of slot i resolves report r to its message
Resolves(i, r) ==
    \E k \in DOMAIN adminReq[i].listing :
        LET row == adminReq[i].listing[k] IN
        /\ row.id = r.id
        /\ row.message_id = r.message_id
        /\ row.message_content = messages[r.message_id].content
        /\ row.author_id = messages[r.message_id].user_id

\* C20: a message that was soft-deleted when GET /api/messages arrived is in
\* no history answered, and every report stored when GET /api/admin/reports
\* arrived is listed with the row of its message, soft-deleted or not.
C20_SoftDeletedHiddenButReported ==
    /\ \A i \in ReqSlots :
          (req[i].op = "load" /\ req[i].status = 200) =>
              \A k \in DOMAIN req[i].rows : req[i].rows[k].id \notin req[i].gone
    /\ \A i \in AdminSlots :
          Listed(i) => \A r \in adminReq[i].known : Resolves(i, r)

\* Witness of C20: message 1 was soft-deleted; a history asked afterwards
\* holds message 2 alone, and a listing shows the report with message 1 and
\* the date of its deletion
C20_Witness ==
    /\ \E i \in ReqSlots : /\ req[i].op = "load"
                           /\ req[i].status = 200
                           /\ req[i].gone = {1}
                           /\ Len(req[i].rows) = 1
                           /\ req[i].rows[1].id = 2
    /\ \E i \in AdminSlots : /\ Listed(i)
                             /\ adminReq[i].status = 200
                             /\ Len(adminReq[i].listing) = 1
                             /\ adminReq[i].listing[1].message_id = 1
                             /\ adminReq[i].listing[1].message_deleted_at # NULL

---------------------------------------------------------------------------
(* The removal specification: pages that show the history, a message that
   is sent, and soft-deletes by the author and by the admin *)

\* What is typed in the pages of this specification
RemovalInputs == {ScenarioText}

\* Both pages have loaded the history (message 1), then opened their sockets.
InitRemoval ==
    /\ is_banned = [u \in Users |-> FALSE]
    /\ revoked_tokens = {}
    /\ clock = 0
    /\ connectedUsers = OpenRegistry
    /\ hs = OpenSockets
    /\ adminReq = [i \in AdminSlots |-> IdleAdminReq]
    /\ emitted = OpenEmitted
    /\ messages = StoredMessages
    /\ reports = {}
    /\ reactions = {}
    /\ req = [i \in ReqSlots |-> IdleReq]
    /\ now = 0
    /\ timestamps = NoTimestamps
    /\ hits = NoHits
    /\ sent = NoSent
    /\ pages = [s \in Sockets |->
                   [cursor |-> Len(OpenEmitted),
                    rows |-> loadMessages(getMessages(50), s)]]
    /\ localStorage = <<>>
    /\ lastCheck = NoCheck
    /\ moods = <<>>

NextRemoval ==
    \/ \E i \in ReqSlots : BrowserSend(i) /\ req'[i].input \in RemovalInputs
    \/ \E i \in ReqSlots : DeleteReceive(i) /\ req'[i].token \in ModTokens
                                            /\ req'[i].messageId # 0
    \/ \E i \in ReqSlots : ReqRevoked(i)
    \/ \E i \in ReqSlots : ReqFindUser(i)
    \/ \E i \in ReqSlots : ReqSelectMessage(i)
    \/ \E i \in ReqSlots : DeleteUpdate(i)
    \/ \E i \in ReqSlots : DeleteAfter(i)
    \/ \E i \in ReqSlots : SendFindUser(i)
    \/ \E i \in ReqSlots : SendInsert(i) /\ messages' # messages
    \/ \E i \in ReqSlots : SendSelect(i) /\ req'[i].message # NoMessage
    \/ \E i \in ReqSlots : SendDiffuse(i)
    \/ \E i \in ReqSlots : PageAnswered(i)
    \/ \E s \in Sockets : PageReceive(s)
    \/ ModReceive(1) /\ adminReq'[1].op = "moderateDeleteMessage"
                     /\ adminReq'[1].token.userId \in Admins
    \/ \E i \in AdminSlots : AdminRevoked(i)
    \/ \E i \in AdminSlots : AdminFindUser(i)
    \/ \E i \in AdminSlots : ModDeleteUpdate(i)
    \/ \E i \in AdminSlots : ModDeleteAfter(i)

SpecRemoval == InitRemoval /\ [][NextRemoval]_vars

---------------------------------------------------------------------------
(* Claims on the removal of messages *)

\* The ids carried by the message_deleted events broadcast so far
RemovedIds == {emitted[k].data : k \in {l \in DOMAIN emitted :
                                            emitted[l].event = "message_deleted"}}

\* Every soft-delete that was answered has broadcast its event to everyone
DeleteBroadcast ==
    /\ \A i \in ReqSlots : (req[i].op = "delete" /\ req[i].status = 200) =>
          req[i].messageId \in RemovedIds
    /\ \A i \in AdminSlots :
          (adminReq[i].op = "moderateDeleteMessage" /\ adminReq[i].status = 200) =>
              adminReq[i].messageId \in RemovedIds
    /\ \A k \in DOMAIN emitted :
          emitted[k].event = "message_deleted" => emitted[k].to = Everyone

\* C21: once a message is soft-deleted, message_deleted is broadcast to every
\* connection, and a connected page that has handled its events shows no row
\* of that message, whether the row came with new_message or with the history.
C21_DeletedMessageLeavesEveryView ==
    /\ DeleteBroadcast
    /\ \A s \in Sockets : CaughtUp(s) =>
          \A k \in DOMAIN pages[s].rows :
              pages[s].rows[k].shows \notin RemovedIds

\* What the pages do: a row that came with new_message before the
\* message_deleted of its message is removed; a row of the history carries no
\* data-message-id and stays.
OnlyBroadcastRowsRemoved ==
    /\ DeleteBroadcast
    /\ \A s \in Sockets : CaughtUp(s) =>
          \A k \in DOMAIN pages[s].rows :
              LET row == pages[s].rows[k] IN
              row.shows \in RemovedIds =>
                  \/ row.origin = "history"
                  \/ \E d, n \in DOMAIN emitted :
                        /\ d < n
                        /\ emitted[d].event = "message_deleted"
                        /\ emitted[d].data = row.shows
                        /\ emitted[n].event = "new_message"
                        /\ emitted[n].data.id = row.shows

\* The DELETE /api/messages/:id of slot i found its message live and has answered
DeleteDecided(i) ==
    /\ req[i].op = "delete"
    /\ Done(req[i])
    /\ req[i].status \in {200, 403}

\* The actor of slot i wrote the message, or is an admin
AuthorOrAdmin(i) ==
    \/ messages[req[i].messageId].user_id = req[i].user.id
    \/ req[i].user.is_admin

\* A step of the DELETE of slot i that writes the store or broadcasts
DeleteActs(i) ==
    /\ req[i].op = "delete"
    /\ req'[i] # req[i]
    /\ messages' # messages \/ emitted' # emitted

\* C22: DELETE /messages/:id of a live message is answered 200 to its author
\* and to an admin, and 403 to anyone else; a request that is refused sets
\* no delete timestamp and broadcasts no message_deleted.
C22_AuthorOrAdminDeletes ==
    /\ [](\A i \in ReqSlots : DeleteDecided(i) =>
             (req[i].status = 200 <=> AuthorOrAdmin(i)))
    /\ [][\A i \in ReqSlots : DeleteActs(i) => AuthorOrAdmin(i)]_vars

\* What the route does: only the author is answered 200; the admin is
\* answered 403 for a message of another actor, like anyone else
OnlyAuthorDeletes ==
    /\ [](\A i \in ReqSlots : DeleteDecided(i) =>
             (req[i].status = 200 <=>
                  messages[req[i].messageId].user_id = req[i].user.id))
    /\ [][\A i \in ReqSlots : DeleteActs(i) =>
             messages[req[i].messageId].user_id = req[i].user.id]_vars

---------------------------------------------------------------------------
(* The authorship specification: POST /api/messages with a body that names
   an author *)

\* "a" and "<b>a</b>"
ForgedContents == {Str(<<"a">>), Str(<<"<", "b", ">", "a", "<", "/", "b", ">">>)}

\* An HTTP client posts {content, user_id}: the body names an actor as author.
ForgedSend(i) ==
    /\ \E token \in ReqTokens, ip \in IPs, body \in ForgedContents, named \in Users :
          Receive(i, [IdleReq EXCEPT !.op = "send", !.via = "direct", !.ip = ip,
                         !.token = token, !.input = body, !.content = body,
                         !.user_id = named])
    /\ UNCHANGED <<authVars, limitVars, clientVars, banVars, emitted, storeVars>>

InitAuthor ==
    /\ is_banned = [u \in Users |-> FALSE]
    /\ revoked_tokens = {}
    /\ clock = 0
    /\ connectedUsers = <<>>
    /\ hs = [s \in Sockets |-> IdleHs]
    /\ adminReq = [i \in AdminSlots |-> IdleAdminReq]
    /\ emitted = <<>>
    /\ messages = StoredMessages
    /\ reports = {}
    /\ reactions = {}
    /\ req = [i \in ReqSlots |-> IdleReq]
    /\ now = 0
    /\ timestamps = NoTimestamps
    /\ hits = NoHits
    /\ sent = NoSent
    /\ pages = NoPages
    /\ localStorage = <<>>
    /\ lastCheck = NoCheck
    /\ moods = <<>>

NextAuthor ==
    \/ \E i \in ReqSlots : ForgedSend(i)
    \/ \E i \in ReqSlots : ReqRevoked(i)
    \/ \E i \in ReqSlots : SendFindUser(i)
    \/ \E i \in ReqSlots : SendInsert(i)
    \/ \E i \in ReqSlots : SendSelect(i)
    \/ \E i \in ReqSlots : SendDiffuse(i)

SpecAuthor == InitAuthor /\ [][NextAuthor]_vars

\* The POST of slot i has had its row inserted
Inserted(i) == req[i].op = "send" /\ req[i].insertId # 0

\* C23: every message persisted by POST /messages has as author the actor the
\* authenticator resolved from the credential, whatever the body names, and
\* every new_message broadcast carries the author of the stored row.
C23_AuthorIsAuthenticatedActor ==
    /\ \A k \in (Len(StoredMessages) + 1)..Len(messages) :
          \E i \in ReqSlots : /\ Inserted(i)
                              /\ req[i].insertId = k
                              /\ messages[k].user_id = req[i].token.userId
                              /\ req[i].user.id = req[i].token.userId
    /\ \A k \in NewMessages :
          /\ emitted[k].data.id \in DOMAIN messages
          /\ emitted[k].data.user_id = messages[emitted[k].data.id].user_id

\* A body naming another actor was accepted, stored and broadcast
C23_Witness ==
    \E i \in ReqSlots :
        /\ Inserted(i)
        /\ Done(req[i])
        /\ req[i].status = 201
        /\ req[i].user_id # req[i].token.userId
        /\ \E k \in NewMessages : emitted[k].data.id = req[i].insertId

---------------------------------------------------------------------------
(* Reports of a message that is being deleted *)

\* The handler of the report of slot i resumes with the answer to its SELECT
\* and the message has no live row
ReadsNoLiveRow(i) ==
    /\ req[i].op = "report"
    /\ req[i].pc = "selectMessage"
    /\ req'[i] # req[i]
    /\ selectLiveMessage(req[i].messageId) = <<>>

\* A fileReport whose message is missing or soft-deleted when it is read is
\* answered 404 and stores no row
ReportOfGoneMessageRefused ==
    [][\A i \in ReqSlots : ReadsNoLiveRow(i) =>
           /\ req'[i].status = 404
           /\ Done(req'[i])
           /\ reports' = reports]_vars

\* Every row that enters the reports table names a message that is live at
\* the moment of the insertion
ReportedWhileLive ==
    [][\A row \in reports' \ reports :
           /\ row.message_id \in DOMAIN messages
           /\ messages[row.message_id].deleted_at = NULL]_vars

\* C24: fileReport is answered 404 and stores nothing when the message is
\* missing or already soft-deleted, and under every interleaving no report row
\* is created for a message that was soft-deleted before the row was inserted.
C24_NoReportOfDeletedMessage == ReportOfGoneMessageRefused /\ ReportedWhileLive

---------------------------------------------------------------------------
(* The history specification: getMessages over stores of several sizes *)

\* The numbers of stored messages: none, fewer than any limit, just under and
\* over the default of 50, and over the cap of 200
HistorySizes == {0, 3, 52, 203}

\* Which messages are soft-deleted: none, every second one, the newest, the
\* oldest
DeletionPatterns == {"none", "even", "newest", "oldest"}

Erased(k, n, pattern) ==
    CASE pattern = "none" -> FALSE
      [] pattern = "even" -> k % 2 = 0
      [] pattern = "newest" -> k = n
      [] pattern = "oldest" -> k = 1

\* A messages table of n rows, in order of creation, written by both users
History(n, pattern) ==
    [k \in 1..n |-> [id |-> k, user_id |-> 1 + (k % 2), salon_id |-> 1,
                     content |-> <<[ch |-> "a", n |-> 1]>>,
                     deleted_at |-> IF Erased(k, n, pattern) THEN 0 ELSE NULL]]

\* req.query.limit: absent, below, inside and above the range of the validator
HistoryLimits == {NULL, 0, 1, 2, 200, 201}

\* The limits of direct calls of db.getMessages
CallLimits == {1, 2, 50, 200, 201, 250}

\* GET /api/messages arrives.
HistoryReceive(i) == LoadFrom(i, HistoryLimits)

\* db.getMessages(limit) is called and returns.
HistoryCall(i) ==
    /\ req[i].pc = "idle"
    /\ \A j \in ReqSlots : j < i => req[j].pc # "idle"
    /\ \E limit \in CallLimits :
          req' = [req EXCEPT ![i] =
                     Respond([IdleReq EXCEPT !.op = "load", !.via = "direct",
                                             !.limit = limit, !.gone = SoftDeleted,
                                             !.rows = getMessages(limit)], 200)]
    /\ UNCHANGED <<authVars, limitVars, clientVars, banVars, emitted, storeVars>>

InitHistory ==
    /\ is_banned = [u \in Users |-> FALSE]
    /\ revoked_tokens = {}
    /\ clock = 0
    /\ connectedUsers = <<>>
    /\ hs = [s \in Sockets |-> IdleHs]
    /\ adminReq = [i \in AdminSlots |-> IdleAdminReq]
    /\ emitted = <<>>
    /\ \E n \in HistorySizes, pattern \in DeletionPatterns :
          messages = History(n, pattern)
    /\ reports = {}
    /\ reactions = {}
    /\ req = [i \in ReqSlots |-> IdleReq]
    /\ now = 0
    /\ timestamps = NoTimestamps
    /\ hits = NoHits
    /\ sent = NoSent
    /\ pages = NoPages
    /\ localStorage = <<>>
    /\ lastCheck = NoCheck
    /\ moods = <<>>

NextHistory ==
    \/ HistoryReceive(1)
    \/ HistoryCall(1)
    \/ ReqRevoked(1)
    \/ ReqFindUser(1)
    \/ LoadSelect(1)
    \/ DeleteReceive(2) /\ req'[2].messageId # 0
    \/ ReqRevoked(2)
    \/ ReqFindUser(2)
    \/ ReqSelectMessage(2)
    \/ DeleteUpdate(2)
    \/ DeleteAfter(2)

SpecHistory == InitHistory /\ [][NextHistory]_vars

\* The ids of the live messages
Live == DOMAIN messages \ SoftDeleted

SmallerOf(a, b) == IF a < b THEN a ELSE b

\* rows are the n most recent live messages, oldest first
MostRecent(rows, n) ==
    LET ids == {rows[k].id : k \in DOMAIN rows} IN
    /\ Len(rows) = SmallerOf(n, Cardinality(Live))
    /\ ids \subseteq Live
    /\ \A j, k \in DOMAIN rows : j < k => rows[j].id < rows[k].id
    /\ \A m \in Live \ ids : \A k \in ids : m < k

\* The load of slot i is answered with messages in this step
LoadAnswers(i) ==
    /\ req[i].op \in {None, "load"}
    /\ req[i].pc \in {"idle", "getMessages"}
    /\ req'[i].op = "load"
    /\ Done(req'[i])
    /\ req'[i].status = 200

\* The limit the load of slot i asks for: req.query.limit || 50
Asked(i) == IF req'[i].limit = NULL THEN 50 ELSE req'[i].limit

---------------------------------------------------------------------------
(* The online count *)

\* The connections whose connection handler has run and whose disconnect
\* handler has not
Established == {s \in Sockets : hs[s].pc = "connected"}

\* The positions of the online_count broadcasts to everyone
CountBroadcasts ==
    {k \in 1..Len(emitted) : /\ emitted[k].event = "online_count"
                             /\ emitted[k].to = Everyone}

\* The count of the last online_count broadcast; 0 before the first one
LastCount ==
    IF CountBroadcasts = {} THEN 0
    ELSE emitted[CHOOSE k \in CountBroadcasts : \A j \in CountBroadcasts : j <= k].data

---------------------------------------------------------------------------
(* security.js: Security.sanitizeText *)

\* The characters of a string, one by one
RECURSIVE Chars(_)
Chars(s) ==
    IF s = <<>> THEN <<>>
    ELSE [k \in 1..s[1].n |-> s[1].ch] \o Chars(Tail(s))

\* One character, lowered (the i flag of a regular expression)
lower(ch) ==
    IF \E k \in 1..Len(UpperCase) : UpperCase[k] = ch
    THEN LowerCase[CHOOSE k \in 1..Len(UpperCase) : UpperCase[k] = ch]
    ELSE ch

\* \w of a regular expression, among the characters used here
IsWord(ch) == \E k \in 1..Len(LowerCase) : LowerCase[k] = lower(ch)

\* The characters c begin with the word, whatever the case
startsWith(c, word) ==
    /\ Len(c) >= Len(word)
    /\ \A k \in 1..Len(word) : lower(c[k]) = word[k]

\* The characters of c, from the first, that stand before the next '<'
upToTag(c) ==
    LET tags == {k \in 2..Len(c) : c[k] = "<"} IN
    IF tags = {} THEN Len(c)
    ELSE (CHOOSE k \in tags : \A j \in tags : k <= j) - 1

\* The string made of the characters c
Pack(c) ==
    LET starts == {k \in 1..Len(c) : k = 1 \/ c[k] # c[k - 1]}
        start(j) == CHOOSE k \in starts : Cardinality({x \in starts : x < k}) = j - 1
        end(j) == IF j = Cardinality(starts) THEN Len(c) ELSE start(j + 1) - 1
    IN [j \in 1..Cardinality(starts) |->
           [ch |-> c[start(j)], n |-> end(j) - start(j) + 1]]

OpenScript == <<"<", "s", "c", "r", "i", "p", "t">>
CloseScript == <<"<", "/", "s", "c", "r", "i", "p", "t", ">">>

\* The places of c, after an opening <script, where </script> begins
closings(c) ==
    {j \in (Len(OpenScript) + 1)..Len(c) :
        startsWith(SubSeq(c, j, Len(c)), CloseScript)}

\* .replace(/<script\b[^<]*(?:(?!<\/script>)<[^<]*)*<\/script>/gi, ''): a
\* match runs from "<script" followed by a character that is not of a word to
\* the end of the first "</script>" after it.
RECURSIVE removeScripts(_)
removeScripts(c) ==
    IF c = <<>> THEN <<>>
    ELSE IF /\ startsWith(c, OpenScript)
            /\ Len(c) > Len(OpenScript)
            /\ ~IsWord(c[Len(OpenScript) + 1])
            /\ closings(c) # {}
    THEN LET j == CHOOSE a \in closings(c) : \A b \in closings(c) : a <= b
         IN removeScripts(SubSeq(c, j + Len(CloseScript), Len(c)))
    ELSE SubSeq(c, 1, upToTag(c)) \o removeScripts(SubSeq(c, upToTag(c) + 1, Len(c)))

\* (mutant) a pattern that removes only the tags holding no '<'
RECURSIVE stripInnermost(_)
stripInnermost(c) ==
    IF c = <<>> THEN <<>>
    ELSE IF /\ c[1] = "<"
            /\ \E e \in 3..Len(c) : /\ c[e] = ">"
                                    /\ \A m \in 2..(e - 1) : c[m] \notin {"<", ">"}
    THEN LET e == CHOOSE x \in 3..Len(c) : c[x] = ">" /\ \A m \in 2..(x - 1) : c[m] # ">"
         IN stripInnermost(SubSeq(c, e + 1, Len(c)))
    ELSE SubSeq(c, 1, upToTag(c)) \o stripInnermost(SubSeq(c, upToTag(c) + 1, Len(c)))

\* .replace(/<[^>]+>/g, ''): a match runs from a '<' that is not directly
\* followed by '>' to the first '>' after it; "<>" is left alone.
RECURSIVE stripElements(_)
stripElements(c) ==
    IF c = <<>> THEN <<>>
    ELSE IF /\ c[1] = "<"
            /\ Len(c) >= 3
            /\ c[2] # ">"
            /\ \E e \in 3..Len(c) : c[e] = ">"
    THEN LET e == CHOOSE x \in 3..Len(c) : c[x] = ">" /\ \A m \in 3..(x - 1) : c[m] # ">"
         IN stripElements(SubSeq(c, e + 1, Len(c)))
    ELSE SubSeq(c, 1, upToTag(c)) \o stripElements(SubSeq(c, upToTag(c) + 1, Len(c)))

\* (mutant) sanitizeText with the pattern that removes only innermost tags
sanitizeText_innermost(str) == trim(Pack(stripInnermost(removeScripts(Chars(str)))))

\* security.js: Security.sanitizeText, of a string
sanitizeText(str) == trim(Pack(stripElements(removeScripts(Chars(str)))))

---------------------------------------------------------------------------
(* The sanitizer specification: each sanitizer applied to a text, then to
   its own result *)

\* The texts: every string of up to MaxLen characters of the alphabet, every
\* sequence of up to MaxPieces pieces, and texts around the 500 characters
\* that sanitizeMessage accepts
MaxLen == 6
MaxPieces == 3
Alphabet == {"<", ">", "a", " "}
Pieces == {<<"<", "s", "c", "r", "i", "p", "t", ">">>,
           <<"<", "S", "c", "r", "i", "p", "t", " ">>,
           <<"<", "s", "c", "r", "i", "p", "t", "s", ">">>,
           <<"<", "/", "s", "c", "r", "i", "p", "t", ">">>,
           <<"<", "b", ">">>, <<"<", ">">>, <<"<">>, <<">">>,
           <<"a">>, <<" ", "\n", " ">>}

RECURSIVE Join(_)
Join(ps) == IF ps = <<>> THEN <<>> ELSE ps[1] \o Join(Tail(ps))

SanitizerInputs ==
    {Str(c) : c \in UNION {[1..k -> Alphabet] : k \in 0..MaxLen}}
    \cup {Str(Join(ps)) : ps \in UNION {[1..k -> Pieces] : k \in 1..MaxPieces}}
    \cup {Repeat("z", 500), Repeat("z", 501),
          Concat(Repeat(" ", 3), Repeat("z", 500)),
          Concat(Str(<<"<", "b", ">">>), Repeat("z", 501))}

Sanitizers == {"sanitizeMessage", "sanitizeText"}

\* sanitizeMessage answers null to what is not a string; its own null is
\* not one
apply(f, x) ==
    IF f = "sanitizeMessage" THEN (IF x = Null THEN Null ELSE sanitizeMessage(x))
    ELSE sanitizeText(x)

\* A sanitizer is applied to the text.
SanitizeOnce ==
    /\ req[1].pc = "idle"
    /\ \E f \in Sanitizers :
          req' = [req EXCEPT ![1] = [@ EXCEPT !.op = f, !.pc = "done",
                                              !.content = apply(f, req[1].input)]]
    /\ UNCHANGED <<authVars, limitVars, clientVars, banVars, emitted, storeVars>>

\* The same sanitizer is applied to what it returned.
SanitizeAgain ==
    /\ req[1].pc = "done"
    /\ req[2].pc = "idle"
    /\ req' = [req EXCEPT ![2] = [@ EXCEPT !.op = req[1].op, !.pc = "done",
                                           !.input = req[1].content,
                                           !.content = apply(req[1].op, req[1].content)]]
    /\ UNCHANGED <<authVars, limitVars, clientVars, banVars, emitted, storeVars>>

InitSanitize ==
    /\ is_banned = [u \in Users |-> FALSE]
    /\ revoked_tokens = {}
    /\ clock = 0
    /\ connectedUsers = <<>>
    /\ hs = [s \in Sockets |-> IdleHs]
    /\ adminReq = [i \in AdminSlots |-> IdleAdminReq]
    /\ emitted = <<>>
    /\ messages = <<>>
    /\ reports = {}
    /\ reactions = {}
    /\ \E text \in SanitizerInputs :
          req = [i \in ReqSlots |-> IF i = 1 THEN [IdleReq EXCEPT !.input = text]
                                    ELSE IdleReq]
    /\ now = 0
    /\ timestamps = NoTimestamps
    /\ hits = NoHits
    /\ sent = NoSent
    /\ pages = NoPages
    /\ localStorage = <<>>
    /\ lastCheck = NoCheck
    /\ moods = <<>>

NextSanitize == SanitizeOnce \/ SanitizeAgain

SpecSanitize == InitSanitize /\ [][NextSanitize]_vars

\* C27: each sanitizer is idempotent -- applied to its own result it returns
\* that result, and what sanitizeMessage rejected stays rejected.
C27_SanitizersIdempotent ==
    (req[2].op \in Sanitizers /\ Done(req[2])) =>
        /\ req[2].content = req[1].content
        /\ req[1].content = Null => req[2].content = Null

\* sanitizeText removed a script element and a tag from a text and, applied
\* again, changed nothing more
C27_Witness ==
    /\ req[2].op = "sanitizeText"
    /\ Done(req[2])
    /\ req[1].content # req[1].input
    /\ req[1].content # <<>>
    /\ removeScripts(Chars(req[1].input)) # Chars(req[1].input)

---------------------------------------------------------------------------
(* Self-ban *)

\* The ban of slot i was sent by a moderator and names the moderator
SelfBan(i) ==
    /\ adminReq[i].op = "ban"
    /\ adminReq[i].user # NoUser
    /\ adminReq[i].user.is_admin
    /\ adminReq[i].target = adminReq[i].user.id

\* The ban of slot i was sent by a moderator and names another actor
BanOfOther(i) ==
    /\ adminReq[i].op = "ban"
    /\ adminReq[i].user # NoUser
    /\ adminReq[i].user.is_admin
    /\ adminReq[i].target # adminReq[i].user.id

\* The positions of the user_banned broadcasts that name actor u
BannedBroadcasts(u) ==
    {k \in 1..Len(emitted) : emitted[k].event = "user_banned" /\ emitted[k].data = u}

\* C28: a ban a moderator aims at themselves is refused: it never reaches the
\* UPDATE, sets no flag and broadcasts no user_banned; a ban aimed at another
\* actor sets that actor's flag.
C28_NoSelfBan ==
    /\ [](\A i \in AdminSlots : SelfBan(i) =>
             /\ adminReq[i].pc \notin {"update", "after_update"}
             /\ Done(adminReq[i]) => adminReq[i].status = 400)
    /\ [][\A i \in AdminSlots :
             (SelfBan(i) /\ adminReq'[i] # adminReq[i]) =>
                 /\ is_banned' = is_banned
                 /\ emitted' = emitted]_vars
    /\ [][\A i \in AdminSlots :
             (BanOfOther(i) /\ adminReq[i].pc = "update" /\ adminReq'[i] # adminReq[i]) =>
                 is_banned'[adminReq[i].target]]_vars
    /\ [](\A i \in AdminSlots :
             (BanOfOther(i) /\ Done(adminReq[i])) => adminReq[i].status = 200)

\* The moderator was refused a ban of themselves, and has banned actor 2
C28_Witness ==
    \E i, j \in AdminSlots :
        /\ SelfBan(i) /\ Done(adminReq[i]) /\ adminReq[i].status = 400
        /\ BanOfOther(j) /\ Done(adminReq[j]) /\ adminReq[j].status = 200
        /\ is_banned[adminReq[j].target]
        /\ ~is_banned[adminReq[i].target]
        /\ BannedBroadcasts(adminReq[i].target) = {}
        /\ BannedBroadcasts(adminReq[j].target) # {}

---------------------------------------------------------------------------
(* The order of broadcasts *)

\* The place of message id in what getMessages returns (0: not returned)
PlaceInHistory(id) ==
    LET rows == getMessages(200)
        at == {k \in DOMAIN rows : rows[k].id = id}
    IN IF at = {} THEN 0 ELSE CHOOSE k \in at : TRUE

\* C29: the new_message broadcasts of two sends of different actors come in
\* the order in which the two rows were persisted, which is the order of
\* their ids and the order in which loadRecent returns them.
C29_BroadcastOrderIsStoreOrder ==
    \A j, k \in NewMessages :
        (j < k /\ emitted[j].data.user_id # emitted[k].data.user_id) =>
            /\ emitted[j].data.id < emitted[k].data.id
            /\ PlaceInHistory(emitted[j].data.id) < PlaceInHistory(emitted[k].data.id)

---------------------------------------------------------------------------
(* socketHandler.js: the events a client emits on its socket *)

MaxClientEvents == 2

\* The names a client gives to the events it emits: the two chat.js emits,
\* and the names of events of the server
ClientEvents == {"typing", "stop_typing", "new_message", "message_deleted"}

\* (mutant) a connection handler that relays a client's new_message
onClientEvent_relaysMessages(s, name) ==
    IF name = "typing"
    THEN <<[event |-> "user_typing",
            data |-> [username |-> hs[s].user.username, avatar |-> hs[s].user.avatar],
            to |-> AllBut(s)]>>
    ELSE IF name = "stop_typing"
    THEN <<[event |-> "user_stop_typing", data |-> NULL, to |-> AllBut(s)]>>
    ELSE IF name = "new_message"
    THEN <<[event |-> "new_message", data |-> NoMessage, to |-> Everyone]>>
    ELSE <<>>

\* What the listeners of lines 96-105 emit for an event of socket s; a name
\* with no listener is dropped
onClientEvent(s, name) ==
    IF name = "typing"
    THEN <<[event |-> "user_typing",
            data |-> [username |-> hs[s].user.username, avatar |-> hs[s].user.avatar],
            to |-> AllBut(s)]>>
    ELSE IF name = "stop_typing"
    THEN <<[event |-> "user_stop_typing", data |-> NULL, to |-> AllBut(s)]>>
    ELSE <<>>

\* The client of socket s emits an event and the server handles it.
ClientEmit(s) ==
    /\ hs[s].pc = "connected"
    /\ Len(hs[s].heard) < MaxClientEvents
    /\ \E name \in ClientEvents :
          /\ hs' = [hs EXCEPT ![s].heard = Append(@, name)]
          /\ emitted' = emitted \o onClientEvent(s, name)
    /\ UNCHANGED <<authVars, limitVars, clientVars, connectedUsers, adminReq, httpVars>>

InitTyping ==
    /\ is_banned = [u \in Users |-> FALSE]
    /\ revoked_tokens = {}
    /\ clock = 0
    /\ connectedUsers = OpenRegistry
    /\ hs = OpenSockets
    /\ adminReq = [i \in AdminSlots |-> IdleAdminReq]
    /\ emitted = OpenEmitted
    /\ messages = StoredMessages
    /\ reports = {}
    /\ reactions = {}
    /\ req = [i \in ReqSlots |-> IdleReq]
    /\ now = 0
    /\ timestamps = NoTimestamps
    /\ hits = NoHits
    /\ sent = NoSent
    /\ pages = [s \in Sockets |-> [cursor |-> Len(OpenEmitted), rows |-> <<>>]]
    /\ localStorage = <<>>
    /\ lastCheck = NoCheck
    /\ moods = <<>>

NextTyping ==
    \/ \E s \in Sockets : ClientEmit(s)
    \/ \E s \in Sockets : PageReceive(s)
    \/ \E s \in Sockets : OnDisconnect(s)

SpecTyping == InitTyping /\ [][NextTyping]_vars

\* The server hears an event of socket s in this step
Hears(s) == Len(hs'[s].heard) > Len(hs[s].heard)

\* The name of that event
Heard(s) == hs'[s].heard[Len(hs'[s].heard)]

\* The typing relays, by position
Relays ==
    {k \in 1..Len(emitted) : emitted[k].event \in {"user_typing", "user_stop_typing"}}

\* C30: of the events a client emits, the server handles typing and
\* stop_typing only; each is relayed, as user_typing and user_stop_typing, to
\* every connection except the sender's; and no event of a client inserts a
\* message, emits new_message or changes the registry or the store.
C30_ClientEventsOnlyRelayTyping ==
    /\ [][\A s \in Sockets : Hears(s) =>
             /\ UNCHANGED <<connectedUsers, messages, reports, reactions,
                            is_banned, revoked_tokens>>
             /\ Heard(s) \notin {"typing", "stop_typing"} => emitted' = emitted
             /\ Heard(s) \in {"typing", "stop_typing"} =>
                   /\ Len(emitted') = Len(emitted) + 1
                   /\ emitted'[Len(emitted')].event =
                         (IF Heard(s) = "typing" THEN "user_typing"
                          ELSE "user_stop_typing")
                   /\ \A t \in Sockets :
                         Addressed(emitted'[Len(emitted')].to, t) <=> t # s]_vars
    /\ [](NewMessages = {})
    /\ [](\A s \in Sockets : \A k \in Relays :
             pages[s].cursor = k => emitted[k].to # AllBut(s))

\* The page of one connection has handled the user_typing relayed from the
\* other, whose client also emitted a new_message that went nowhere
C30_Witness ==
    \E s, t \in Sockets :
        /\ s # t
        /\ hs[s].heard = <<"typing", "new_message">>
        /\ pages[t].cursor \in Relays
        /\ emitted[pages[t].cursor].event = "user_typing"
        /\ emitted[pages[t].cursor].data.username = hs[s].user.username
        /\ pages[s].cursor \notin Relays

---------------------------------------------------------------------------
(* Repeated and refused transitions of a report *)

\* The PATCH of slot i comes from a moderator
Transition(i) ==
    /\ adminReq[i].op = "transitionReport"
    /\ adminReq[i].user # NoUser
    /\ adminReq[i].user.is_admin

\* The store executes the UPDATE of the PATCH of slot i in this step
Transitions(i) ==
    /\ Transition(i)
    /\ adminReq[i].pc = "updateReport"
    /\ adminReq'[i] # adminReq[i]

\* The rows of report id
RowsOfReport(id) == {r \in reports : r.id = id}

\* C31: transitionReport to the status a report already has answers success
\* and leaves the report as it was; a status other than resolved and rejected
\* is refused and changes nothing; an unknown report id is answered NotFound.
C31_RetransitionIsNoOp ==
    /\ [][\A i \in AdminSlots : Transitions(i) =>
             /\ (\E r \in RowsOfReport(adminReq[i].reportId) :
                    r.status = adminReq[i].body)
                   => (reports' = reports /\ adminReq'[i].status = 200)
             /\ RowsOfReport(adminReq[i].reportId) = {}
                   => (reports' = reports /\ adminReq'[i].status = 404)]_vars
    /\ [](\A i \in AdminSlots :
             (Transition(i) /\ adminReq[i].body \notin {"resolved", "rejected"}) =>
                 /\ adminReq[i].pc # "updateReport"
                 /\ Done(adminReq[i]) => adminReq[i].status = 400)
    /\ [][\A i \in AdminSlots :
             (/\ adminReq[i].op = "transitionReport"
              /\ adminReq[i].body \notin {"resolved", "rejected"}
              /\ adminReq'[i] # adminReq[i]) => reports' = reports]_vars

\* A moderator asked for the status the report already had and was answered
\* success; the reports are what they were when the request arrived
C31_Witness ==
    \E i \in AdminSlots :
        /\ Transition(i)
        /\ Done(adminReq[i])
        /\ adminReq[i].status = 200
        /\ \E r \in adminReq[i].known :
              r.id = adminReq[i].reportId /\ r.status = adminReq[i].body
        /\ reports = adminReq[i].known

---------------------------------------------------------------------------
(* The erasure specification: messages are sent and soft-deleted, by their
   author and by the moderator, while the clock of the store advances *)

MaxClock == 2

\* A second passes on the clock of the store.
StoreTick ==
    /\ clock < MaxClock
    /\ clock' = clock + 1
    /\ UNCHANGED <<is_banned, revoked_tokens, limitVars, clientVars, banVars,
                   emitted, httpVars>>

InitErase ==
    /\ is_banned = [u \in Users |-> FALSE]
    /\ revoked_tokens = {}
    /\ clock = 0
    /\ connectedUsers = <<>>
    /\ hs = [s \in Sockets |-> IdleHs]
    /\ adminReq = [i \in AdminSlots |-> IdleAdminReq]
    /\ emitted = <<>>
    /\ messages = StoredMessages
    /\ reports = {}
    /\ reactions = {}
    /\ req = [i \in ReqSlots |-> IdleReq]
    /\ now = 0
    /\ timestamps = NoTimestamps
    /\ hits = NoHits
    /\ sent = NoSent
    /\ pages = NoPages
    /\ localStorage = <<>>
    /\ lastCheck = NoCheck
    /\ moods = <<>>

NextErase ==
    \/ StoreTick
    \/ \E i \in AdminSlots : /\ ModReceive(i)
                             /\ adminReq'[i].op = "moderateDeleteMessage"
                             /\ adminReq'[i].token.userId \in Admins
    \/ \E i \in AdminSlots : AdminRevoked(i)
    \/ \E i \in AdminSlots : AdminFindUser(i)
    \/ \E i \in AdminSlots : ModDeleteUpdate(i)
    \/ \E i \in AdminSlots : ModDeleteAfter(i)
    \/ \E i \in ReqSlots : /\ DeleteReceive(i)
                           /\ req'[i].token # NoToken
                           /\ req'[i].messageId # 0
    \/ \E i \in ReqSlots : /\ ForgedSend(i)
                           /\ req'[i].token.userId = 2
                           /\ req'[i].user_id = 1
                           /\ req'[i].ip = 1
    \/ \E i \in ReqSlots : ReqRevoked(i)
    \/ \E i \in ReqSlots : ReqFindUser(i)
    \/ \E i \in ReqSlots : ReqSelectMessage(i)
    \/ \E i \in ReqSlots : DeleteUpdate(i)
    \/ \E i \in ReqSlots : DeleteAfter(i)
    \/ \E i \in ReqSlots : SendFindUser(i)
    \/ \E i \in ReqSlots : SendInsert(i)
    \/ \E i \in ReqSlots : SendSelect(i)
    \/ \E i \in ReqSlots : SendDiffuse(i)

SpecErase == InitErase /\ [][NextErase]_vars

\* C32: a stored message stays stored with its id, content, author and room;
\* its delete timestamp only goes from null to a time, once, and a delete
\* repeated later keeps the first time.
C32_MessageOnlySoftDeleted ==
    [][\A k \in DOMAIN messages :
          /\ k \in DOMAIN messages'
          /\ messages'[k].id = messages[k].id
          /\ messages'[k].content = messages[k].content
          /\ messages'[k].user_id = messages[k].user_id
          /\ messages'[k].salon_id = messages[k].salon_id
          /\ messages[k].deleted_at # NULL =>
                messages'[k].deleted_at = messages[k].deleted_at]_vars

\* Two deletes of one message were answered 200 and the message keeps a
\* delete time older than the clock of the store
C32_Witness ==
    \E k \in DOMAIN messages :
        /\ messages[k].deleted_at # NULL
        /\ messages[k].deleted_at < clock
        /\ \A i \in AdminSlots : /\ adminReq[i].op = "moderateDeleteMessage"
                                 /\ adminReq[i].messageId = k
                                 /\ Done(adminReq[i])
                                 /\ adminReq[i].status = 200
        /\ Len(messages) > Len(StoredMessages)

---------------------------------------------------------------------------
(* routes_profile.js: GET /api/profile/:id *)

\* GET /api/profile/:id arrives.
ProfileReceive(i) ==
    /\ \E token \in ReqTokens, id \in Users \cup {GhostUser} :
          Receive(i, [IdleReq EXCEPT !.op = "profile", !.token = token,
                                     !.target = id])
    /\ UNCHANGED <<authVars, limitVars, clientVars, banVars, emitted, storeVars>>

\* The store answers the handler's findUserById; the handler answers.
ProfileFind(i) ==
    /\ req[i].pc = "findProfile"
    /\ LET user == findUserById(req[i].target) IN
          req' = [req EXCEPT ![i] =
                     IF user = NoUser THEN Respond(@, 404)
                     ELSE Respond([@ EXCEPT !.profile = profileOf(user, req[i].user)],
                                  200)]
    /\ UNCHANGED <<authVars, limitVars, clientVars, banVars, emitted, storeVars>>

---------------------------------------------------------------------------
(* The privacy specification: every kind of broadcast, and profiles *)

InitPrivacy ==
    /\ is_banned = [u \in Users |-> FALSE]
    /\ revoked_tokens = {}
    /\ clock = 0
    /\ connectedUsers = OpenRegistry
    /\ hs = OpenSockets
    /\ adminReq = [i \in AdminSlots |-> IdleAdminReq]
    /\ emitted = OpenEmitted
    /\ messages = StoredMessages
    /\ reports = {}
    /\ reactions = {}
    /\ req = [i \in ReqSlots |-> IdleReq]
    /\ now = 0
    /\ timestamps = NoTimestamps
    /\ hits = NoHits
    /\ sent = NoSent
    /\ pages = [s \in Sockets |-> [cursor |-> Len(OpenEmitted), rows |-> <<>>]]
    /\ localStorage = <<>>
    /\ lastCheck = NoCheck
    /\ moods = <<>>

NextPrivacy ==
    \/ OnDisconnect(2)
    \/ ClientEmit(1) /\ Len(hs'[1].heard) = 1
    \/ AdminReceive(1) /\ adminReq'[1].op = "ban" /\ adminReq'[1].token.userId \in Admins
    \/ AdminRevoked(1)
    \/ AdminFindUser(1)
    \/ AdminUpdate(1)
    \/ AdminAfterUpdate(1)
    \/ ProfileReceive(2)
    \/ ForgedSend(1) /\ req'[1].ip = 1 /\ req'[1].token.userId = req'[1].user_id
    \/ ReactReceive(1) /\ req'[1].token # NoToken /\ req'[1].messageId = 1
    \/ DeleteReceive(1) /\ req'[1].token # NoToken /\ req'[1].messageId = 1
    \/ \E i \in ReqSlots : ReqRevoked(i)
    \/ \E i \in ReqSlots : ReqFindUser(i)
    \/ ProfileFind(2)
    \/ SendFindUser(1)
    \/ SendInsert(1)
    \/ SendSelect(1)
    \/ SendDiffuse(1)
    \/ ReactSelect(1)
    \/ ReactInsert(1)
    \/ ReactCount(1)
    \/ ReactEmit(1)
    \/ ReqSelectMessage(1)
    \/ DeleteUpdate(1)
    \/ DeleteAfter(1)

SpecPrivacy == InitPrivacy /\ [][NextPrivacy]_vars

\* The values of the private columns
Private ==
    UNION {{email(u), first_name(u), last_name(u)} : u \in Users \cup {GhostUser}}

\* The fields a payload of each event may have; the other events carry a
\* number
PayloadFields(event) ==
    CASE event = "new_message" -> {"id", "content", "user_id", "username", "avatar"}
      [] event = "user_typing" -> {"username", "avatar"}
      [] event = "reaction_update" -> {"messageId", "count"}
      [] OTHER -> {}

\* A record exposes nothing but pseudonym and avatar among the columns of
\* its actor
PublicOnly(rec) ==
    \A f \in DOMAIN rec \cap {"username", "avatar"} : rec[f] \notin Private

\* The events that were broadcast, by kind
KindsEmitted == {emitted[k].event : k \in 1..Len(emitted)}

\* C33: no broadcast event and no registry entry holds an actor's email, real
\* name or emergency contact -- payloads hold at most actor id, pseudonym and
\* avatar -- and GET /profile/:id answers email and real name only to the
\* actor the profile is of, and never an emergency contact.
C33_PrivateFieldsStayPrivate ==
    /\ \A k \in 1..Len(emitted) :
          IF emitted[k].event \in {"new_message", "user_typing", "reaction_update"}
          THEN /\ DOMAIN emitted[k].data \subseteq PayloadFields(emitted[k].event)
               /\ PublicOnly(emitted[k].data)
          ELSE /\ emitted[k].event \in {"message_deleted", "online_count",
                                        "user_banned", "user_stop_typing"}
               /\ emitted[k].data \in Int
    /\ \A s \in DOMAIN connectedUsers :
          /\ DOMAIN connectedUsers[s] = {"userId", "username", "avatar"}
          /\ PublicOnly(connectedUsers[s])
    /\ \A i \in ReqSlots :
          (req[i].op = "profile" /\ Done(req[i])) =>
              /\ DOMAIN req[i].profile =
                    {"id", "username", "avatar", "email", "first_name", "last_name"}
              /\ (\/ req[i].profile.email # None
                  \/ req[i].profile.first_name # None
                  \/ req[i].profile.last_name # None)
                    => (req[i].status = 200 /\ req[i].user.id = req[i].target)

\* A message, a typing relay, a count and a ban have been broadcast, and an
\* actor was answered their own profile, with email and names
C33_Witness ==
    /\ {"new_message", "user_typing", "online_count", "user_banned"}
          \subseteq KindsEmitted
    /\ \E i \in ReqSlots :
          /\ req[i].op = "profile" /\ req[i].status = 200
          /\ req[i].profile.email = email(req[i].target)
          /\ req[i].profile.last_name = last_name(req[i].user.id)

---------------------------------------------------------------------------
(* The page-start specification: DOMContentLoaded awaits loadMessages and
   then calls initSocket, while another actor posts messages *)

\* loadMessages, lines 761-783: the GET of slot i has answered and the page
\* of socket s, not yet connected, displays the rows of the answer; a failed
\* request is caught and displays nothing.
PageLoaded(i, s) ==
    /\ Done(req[i]) /\ req[i].op = "load" /\ ~req[i].resumed
    /\ hs[s].pc = "idle"
    /\ req' = [req EXCEPT ![i].resumed = TRUE]
    /\ pages' = [pages EXCEPT ![s].rows =
                    IF req[i].status = 200
                    THEN loadMessages(req[i].rows, req[i].token.userId)
                    ELSE <<>>]
    /\ UNCHANGED <<authVars, limitVars, banVars, emitted, storeVars,
                   localStorage, lastCheck>>

\* initSocket, called once loadMessages has returned: the page whose history
\* came with the GET of slot i opens socket s with the same credential.
PageConnect(i, s) ==
    /\ req[i].op = "load" /\ req[i].resumed
    /\ HsReceive(s)
    /\ hs'[s].token = req[i].token

InitStart == InitAuthor

NextStart ==
    \/ /\ LoadFrom(1, {50})
       /\ req'[1].token.userId = 1
    \/ ReqRevoked(1)
    \/ ReqFindUser(1)
    \/ LoadSelect(1)
    \/ PageLoaded(1, 1)
    \/ PageConnect(1, 1)
    \/ HsFindUser(1)
    \/ OnConnection(1)
    \/ PageReceive(1)
    \/ /\ ForgedSend(2)
       /\ req'[2].token.userId = 2
       /\ req'[2].user_id = 2
    \/ ReqRevoked(2)
    \/ SendFindUser(2)
    \/ /\ SendInsert(2)
       /\ messages' # messages
    \/ /\ SendSelect(2)
       /\ req'[2].message # NoMessage
    \/ SendDiffuse(2)

SpecStart == InitStart /\ [][NextStart]_vars

\* The rows of the page of socket s that show message k
RowsShowing(s, k) == {n \in DOMAIN pages[s].rows : pages[s].rows[n].shows = k}

\* The page of socket s has displayed its history and is connected, every
\* request has been answered, and the page has handled every event sent to it
Settled(s) ==
    /\ \E i \in ReqSlots : /\ req[i].op = "load" /\ req[i].resumed
                           /\ req[i].status = 200
    /\ hs[s].pc = "connected"
    /\ nextEvent(s) = 0
    /\ \A i \in ReqSlots : req[i].pc \in {"idle", "done"}

\* C34: a page that loads the history and then opens its connection displays
\* every persisted, non-deleted message exactly once: none persisted by
\* another actor meanwhile is missing, none is shown twice.
C34_EveryMessageShownOnce ==
    Settled(1) => \A k \in Live : Cardinality(RowsShowing(1, k)) = 1

\* The same with "at most once": no message is shown both in the history and
\* with a later new_message
C34_NoMessageShownTwice ==
    Settled(1) => \A k \in Live : Cardinality(RowsShowing(1, k)) <= 1

\* A message was persisted while the page started, and the page has settled
C34_Witness ==
    /\ Settled(1)
    /\ Len(messages) > Len(StoredMessages)

---------------------------------------------------------------------------
(* The repeated-delete specification: the author's and the moderator's
   DELETE of a message that is deleted already, or that has no row *)

\* :id of DELETE /admin/messages/:id -- the stored message, and an id with
\* no row
RepeatedIds == {1, 2}

InitRepeat == InitErase

NextRepeat ==
    \/ StoreTick
    \/ \E i \in AdminSlots : /\ ModReceiveFor(i, RepeatedIds)
                             /\ adminReq'[i].op = "moderateDeleteMessage"
                             /\ adminReq'[i].token.userId \in Admins
    \/ \E i \in AdminSlots : AdminRevoked(i)
    \/ \E i \in AdminSlots : AdminFindUser(i)
    \/ \E i \in AdminSlots : ModDeleteUpdate(i)
    \/ \E i \in AdminSlots : ModDeleteAfter(i)
    \/ \E i \in ReqSlots : /\ DeleteReceive(i)
                           /\ req'[i].token.userId = 1
                           /\ req'[i].messageId # 0
    \/ \E i \in ReqSlots : ReqRevoked(i)
    \/ \E i \in ReqSlots : ReqFindUser(i)
    \/ \E i \in ReqSlots : ReqSelectMessage(i)
    \/ \E i \in ReqSlots : DeleteUpdate(i)
    \/ \E i \in ReqSlots : DeleteAfter(i)

SpecRepeat == InitRepeat /\ [][NextRepeat]_vars

\* The message_deleted events broadcast for message id
Deletions(id) ==
    {k \in 1..Len(emitted) : /\ emitted[k].event = "message_deleted"
                             /\ emitted[k].data = id}

\* C35: the soft delete of a message that is deleted already, or has no row,
\* changes no row; the author's route, reading such a message, answers 404
\* and broadcasts nothing; the moderator's route answers 200 and broadcasts
\* message_deleted once more.
C35_RepeatedDeleteIsNoOp ==
    [][/\ \A i \in ReqSlots :
             /\ (/\ req[i].pc = "deleteMessage" /\ req'[i] # req[i]
                 /\ req[i].messageId \notin Live)
                   => messages' = messages
             /\ (/\ req[i].op = "delete" /\ req[i].pc = "selectMessage"
                 /\ req'[i] # req[i] /\ req[i].messageId \notin Live)
                   => /\ Done(req'[i]) /\ req'[i].status = 404
                      /\ emitted' = emitted
                      /\ messages' = messages
       /\ \A i \in AdminSlots :
             /\ (/\ adminReq[i].pc = "deleteMessage" /\ adminReq'[i] # adminReq[i]
                 /\ adminReq[i].messageId \notin Live)
                   => /\ messages' = messages
                      /\ adminReq'[i].pc = "afterDelete"
             /\ (/\ adminReq[i].pc = "afterDelete" /\ adminReq'[i] # adminReq[i])
                   => /\ Done(adminReq'[i]) /\ adminReq'[i].status = 200
                      /\ emitted' = Append(emitted,
                                       [event |-> "message_deleted",
                                        data |-> adminReq[i].messageId,
                                        to |-> Everyone])]_vars

\* The author has deleted message 1 and been refused a second delete with
\* 404; the moderator has then deleted message 1 again and an id with no row,
\* both answered 200 and broadcast, and the row keeps its first delete time.
C35_Witness ==
    /\ \E i, j \in ReqSlots :
          /\ req[i].op = "delete" /\ req[i].messageId = 1 /\ req[i].status = 200
          /\ req[j].op = "delete" /\ req[j].messageId = 1 /\ req[j].status = 404
    /\ \A i \in AdminSlots : Done(adminReq[i]) /\ adminReq[i].status = 200
    /\ \E i \in AdminSlots : adminReq[i].messageId = 2
    /\ Cardinality(Deletions(1)) = 2
    /\ Cardinality(Deletions(2)) = 1
    /\ 2 \notin DOMAIN messages
    /\ messages[1].deleted_at = 0
    /\ clock > 0

---------------------------------------------------------------------------
(* The order of the limiters and the validation, in the page and in
   POST /api/messages *)

\* The attempts of actor u that rateLimiter still holds at the present time
StillCounted(u) == SelectSeq(timestamps[u], LAMBDA x : now - x < WINDOW)

\* The hits counted for address ip in its running minute
RunningHits(ip) == IF now < hits[ip].resetTime THEN hits[ip].totalHits ELSE 0

\* The times at which a later POST may reach messageLimiter
LaterTimes(ip) ==
    {now, now + 1, hits[ip].resetTime, now + messageLimiterWindowMs}

---------------------------------------------------------------------------
(* routes_auth.js: POST /api/auth/login, and the access specification: bans,
   unbans, logins, requests and handshakes of one actor *)

\* SELECT * FROM users WHERE email = ?, for the e-mail of account id
findUserByEmail(id) == findUserById(id)

\* POST /auth/login arrives with the e-mail of an account, or an unknown one,
\* and a password; authLimiter and loginRules let it through to the handler,
\* which issues findUserByEmail, or answer 429 or 422.
LoginReceive(i) ==
    /\ req[i].pc = "idle"
    /\ \A j \in ReqSlots : j < i => req[j].pc # "idle"
    /\ \E id \in Users \cup {GhostUser}, password \in {"right", "wrong"},
          code \in {0, 422, 429} :
          LET r == [IdleReq EXCEPT !.op = "login", !.target = id,
                                   !.password = password]
          IN req' = [req EXCEPT ![i] =
                        IF code # 0 THEN Respond(r, code)
                        ELSE [r EXCEPT !.pc = "findUserByEmail"]]
    /\ UNCHANGED <<authVars, limitVars, clientVars, banVars, emitted, storeVars>>

\* The store answers findUserByEmail, or fails; bcrypt.compare is issued.
LoginFind(i) ==
    /\ req[i].pc = "findUserByEmail"
    /\ \/ req' = [req EXCEPT ![i] =
                     [@ EXCEPT !.pc = "compare",
                               !.user = findUserByEmail(req[i].target)]]
       \/ req' = [req EXCEPT ![i] = Respond(@, 500)]
    /\ UNCHANGED <<authVars, limitVars, clientVars, banVars, emitted, storeVars>>

\* (mutant) the handler without its test of is_banned
loginAnswer_ignoresBan(user, match) ==
    IF user = NoUser \/ ~match THEN 401
    ELSE 200

\* Lines 166-179: the answer to the loaded row and the compared password
loginAnswer(user, match) ==
    IF user = NoUser \/ ~match THEN 401
    ELSE IF user.is_banned THEN 403
    ELSE 200

\* bcrypt.compare resolves; the handler answers, with a signed token on 200.
LoginCompare(i) ==
    /\ req[i].pc = "compare"
    /\ LET user == req[i].user
           match == user # NoUser /\ req[i].password = "right"
           code == loginAnswer(user, match)
       IN req' = [req EXCEPT ![i] =
                     IF code = 200
                     THEN Respond([@ EXCEPT !.issued = [kind |-> "jwt",
                                                        userId |-> user.id]], 200)
                     ELSE Respond(@, code)]
    /\ UNCHANGED <<authVars, limitVars, clientVars, banVars, emitted, storeVars>>

\* The actor who is banned and unbanned, and its credential
Target == 2
TargetToken == [kind |-> "jwt", userId |-> Target]

InitAccess == InitErase

NextAccess ==
    \/ \E i \in AdminSlots : /\ AdminReceive(i)
                             /\ adminReq'[i].token.userId \in Admins
                             /\ adminReq'[i].token.kind = "jwt"
                             /\ adminReq'[i].target = Target
    \/ \E i \in AdminSlots : AdminRevoked(i)
    \/ \E i \in AdminSlots : AdminFindUser(i)
    \/ \E i \in AdminSlots : AdminUpdate(i)
    \/ \E i \in AdminSlots : AdminAfterUpdate(i)
    \/ \E s \in Sockets : /\ HsReceive(s)
                          /\ hs'[s].token = TargetToken
    \/ \E s \in Sockets : HsFindUser(s)
    \/ \E s \in Sockets : OnConnection(s)
    \/ /\ LoginReceive(1)
       /\ req'[1].target = Target
       /\ req'[1].status # 422
    \/ LoginFind(1)
    \/ LoginCompare(1)
    \/ /\ LoadFrom(2, {NULL})
       /\ req'[2].token = TargetToken
    \/ ReqRevoked(2)
    \/ ReqFindUser(2)
    \/ LoadSelect(2)

SpecAccess == InitAccess /\ [][NextAccess]_vars

\* The credential's user load, in authenticate or in the handshake, is
\* answered in this step for slot i / socket s
UserLoaded(i) == req[i].pc = "findUserById" /\ req'[i] # req[i]
HsUserLoaded(s) == hs[s].pc = "findUserById" /\ hs'[s] # hs[s]

---------------------------------------------------------------------------
(* routes moods.js: GET /api/moods/:id and POST /api/moods, and the mood
   specification *)

\* Each user has one entry in the log.
StoredMoods == <<[id |-> 1, user_id |-> 1, score |-> 3],
                 [id |-> 2, user_id |-> 2, score |-> 7]>>

\* The ids of the entries of userId, the most recent first
RECURSIVE entriesFrom(_, _)
entriesFrom(k, userId) ==
    IF k = 0 THEN <<>>
    ELSE IF moods[k].user_id = userId
    THEN <<[id |-> k, score |-> moods[k].score]>> \o entriesFrom(k - 1, userId)
    ELSE entriesFrom(k - 1, userId)

\* SELECT id, score, note, created_at FROM moods WHERE user_id = ?
\* ORDER BY created_at DESC LIMIT 30
getMoods(userId) ==
    LET all == entriesFrom(Len(moods), userId) IN
    IF Len(all) > 30 THEN SubSeq(all, 1, 30) ELSE all

\* :id of GET /moods/:id -- 0 stands for every id userIdParam refuses
MoodTargets == {0, 1, 2}

\* req.body.score: a valid one and one that moodRules refuses
Scores == {5, 0}

MoodsGetReceive(i) ==
    /\ \E token \in ReqTokens, id \in MoodTargets :
          Receive(i, [IdleReq EXCEPT !.op = "getMoods", !.token = token,
                                     !.target = id])
    /\ UNCHANGED <<authVars, limitVars, clientVars, banVars, emitted, storeVars>>

\* POST /moods arrives; its body may name a user (user_id, 0 when absent).
MoodsPostReceive(i) ==
    /\ \E token \in ReqTokens, score \in Scores, named \in Users \cup {0} :
          Receive(i, [IdleReq EXCEPT !.op = "createMood", !.token = token,
                                     !.score = score, !.user_id = named])
    /\ UNCHANGED <<authVars, limitVars, clientVars, banVars, emitted, storeVars>>

\* The store answers getMoods, or fails; the handler answers.
MoodsSelect(i) ==
    /\ req[i].pc = "getMoods"
    /\ \/ req' = [req EXCEPT ![i] =
                     Respond([@ EXCEPT !.rows = getMoods(req[i].target),
                                       !.logRead = TRUE], 200)]
       \/ req' = [req EXCEPT ![i] = Respond([@ EXCEPT !.logRead = TRUE], 500)]
    /\ UNCHANGED <<authVars, limitVars, clientVars, banVars, emitted, storeVars>>

\* The store executes createMood's INSERT, with req.user.id as user_id, or
\* fails.
MoodInsert(i) ==
    /\ req[i].pc = "createMood"
    /\ \/ /\ moods' = Append(moods, [id |-> Len(moods) + 1,
                                     user_id |-> req[i].user.id,
                                     score |-> req[i].score])
          /\ req' = [req EXCEPT ![i] = [@ EXCEPT !.pc = "selectMood",
                                                 !.insertId = Len(moods) + 1]]
       \/ /\ req' = [req EXCEPT ![i] = Respond(@, 500)]
          /\ UNCHANGED moods
    /\ UNCHANGED <<authVars, limitVars, clientVars, banVars, emitted,
                   messages, reports, reactions>>

\* The store answers createMood's SELECT, or fails; the handler answers.
MoodCreated(i) ==
    /\ req[i].pc = "selectMood"
    /\ \/ req' = [req EXCEPT ![i] =
                     Respond([@ EXCEPT !.mood = moods[req[i].insertId]], 201)]
       \/ req' = [req EXCEPT ![i] = Respond(@, 500)]
    /\ UNCHANGED <<authVars, limitVars, clientVars, banVars, emitted, storeVars>>

InitMoods ==
    /\ is_banned = [u \in Users |-> FALSE]
    /\ revoked_tokens = {}
    /\ clock = 0
    /\ connectedUsers = <<>>
    /\ hs = [s \in Sockets |-> IdleHs]
    /\ adminReq = [i \in AdminSlots |-> IdleAdminReq]
    /\ emitted = <<>>
    /\ messages = StoredMessages
    /\ moods = StoredMoods
    /\ reports = {}
    /\ reactions = {}
    /\ req = [i \in ReqSlots |-> IdleReq]
    /\ now = 0
    /\ timestamps = NoTimestamps
    /\ hits = NoHits
    /\ sent = NoSent
    /\ pages = NoPages
    /\ localStorage = <<>>
    /\ lastCheck = NoCheck

NextMoods ==
    \/ \E i \in ReqSlots : MoodsGetReceive(i)
    \/ \E i \in ReqSlots : MoodsPostReceive(i)
    \/ \E i \in ReqSlots : ReqRevoked(i)
    \/ \E i \in ReqSlots : ReqFindUser(i)
    \/ \E i \in ReqSlots : MoodsSelect(i)
    \/ \E i \in ReqSlots : MoodInsert(i)
    \/ \E i \in ReqSlots : MoodCreated(i)

SpecMoods == InitMoods /\ [][NextMoods]_vars

\* GET /moods/:id of slot i came from an authenticated actor who asked for
\* the log of somebody else
AsksOthersLog(i) ==
    /\ req[i].op = "getMoods" /\ Done(req[i])
    /\ req[i].user # NoUser
    /\ req[i].target >= 1
    /\ req[i].target # req[i].user.id

\* C38: mood entries are private.  GET /moods/:id answers entries only when
\* :id is the id of the authenticated actor, and they are that actor's; for
\* any other id it answers 403 and getMoods is not issued.  POST /moods
\* appends one entry under the id of the authenticated actor, whatever user
\* id the body names, and changes no other entry.
C38_MoodsArePrivate ==
    /\ [](\A i \in ReqSlots :
             /\ AsksOthersLog(i) =>
                   /\ req[i].status = 403
                   /\ ~req[i].logRead
                   /\ req[i].rows = <<>>
             /\ (req[i].op = "getMoods" /\ req[i].logRead) =>
                   /\ req[i].target = req[i].token.userId
                   /\ \A n \in DOMAIN req[i].rows :
                         moods[req[i].rows[n].id].user_id = req[i].token.userId
             /\ (req[i].op = "createMood" /\ req[i].status = 201) =>
                   /\ req[i].mood.user_id = req[i].token.userId
                   /\ req[i].mood = moods[req[i].insertId])
    /\ [][/\ \A k \in DOMAIN moods : k \in DOMAIN moods' /\ moods'[k] = moods[k]
          /\ \A k \in DOMAIN moods' \ DOMAIN moods :
                \E i \in ReqSlots :
                    /\ req[i].op = "createMood" /\ req[i].pc = "createMood"
                    /\ req'[i].insertId = k
                    /\ moods'[k].user_id = req[i].token.userId]_vars

\* User 2 has posted a mood with a body that names user 1: the entry is of
\* user 2; and user 2 has asked for the log of user 1 and was answered 403.
C38_Witness ==
    /\ req[1].op = "createMood" /\ req[1].status = 201
    /\ req[1].token.userId = 2 /\ req[1].user_id = 1
    /\ moods[Len(moods)].user_id = 2
    /\ Len(moods) = Len(StoredMoods) + 1
    /\ req[2].op = "getMoods" /\ req[2].token.userId = 2 /\ req[2].target = 1
    /\ req[2].status = 403

---------------------------------------------------------------------------
(* The timestamps rateLimiter.check() leaves *)

\* The time of the oldest attempt of the window at the last call
OldestInWindow ==
    CHOOSE x \in {InWindow[k] : k \in DOMAIN InWindow} :
        \A k \in DOMAIN InWindow : x <= InWindow[k]

\* The least number of whole seconds that covers ms milliseconds
SecondsCovering(ms) ==
    CHOOSE n \in 0..(WINDOW \div 1000) :
        /\ n * 1000 >= ms
        /\ \A m \in 0..(WINDOW \div 1000) : m * 1000 >= ms => n <= m

\* C39: after every rateLimiter.check() the timestamps are at most MAX, each
\* younger than WINDOW at the time of the call, and in non-decreasing order;
\* the retry-after of a refusal, taken from the first of them, is therefore
\* the time left to the oldest attempt of the window.
C39_TimestampsBoundedAndOrdered ==
    lastCheck.limiter = "rateLimiter" =>
        LET after == lastCheck.after IN
        /\ timestamps[LimiterUser] = after
        /\ Len(after) <= MAX
        /\ \A k \in DOMAIN after : lastCheck.at - after[k] < WINDOW
        /\ \A k, l \in DOMAIN after : k <= l => after[k] <= after[l]
        /\ ~lastCheck.allowed =>
              /\ after[1] = OldestInWindow
              /\ lastCheck.wait =
                    SecondsCovering(WINDOW - (lastCheck.at - OldestInWindow))

\* A call was refused on a full window whose attempts were made at different
\* times, after an earlier attempt had left the window
C39_Witness ==
    /\ lastCheck.limiter = "rateLimiter"
    /\ ~lastCheck.allowed
    /\ Len(lastCheck.after) = MAX
    /\ lastCheck.after[1] < lastCheck.after[MAX]
    /\ lastCheck.after[1] > lastCheck.first

---------------------------------------------------------------------------
(* database.js: revokeToken, and the revocation specification: calls of
   revokeToken, the store's clock, and requests that authenticate *)

\* The expiresAt revokeToken is called with
Expiries == 1..(MaxClock + 1)

\* DELETE FROM revoked_tokens WHERE expires_at < NOW()
deleteExpired(rows) == {row \in rows : ~(row.expires_at < clock)}

\* INSERT IGNORE INTO revoked_tokens (token_hash, user_id, expires_at): the
\* unique key uq_token_hash makes the store skip a hash it holds
insertIgnore(rows, tokenHash, userId, expiresAt) ==
    IF \E row \in rows : row.token_hash = tokenHash THEN rows
    ELSE rows \cup {[token_hash |-> tokenHash, user_id |-> userId,
                     expires_at |-> expiresAt]}

\* db.revokeToken(tokenHash, userId, expiresAt) is called and issues its DELETE.
RevokeCall(i) ==
    /\ req[i].pc = "idle"
    /\ \A j \in ReqSlots : j < i => req[j].pc # "idle"
    /\ \E token \in ModTokens, expiresAt \in Expiries :
          req' = [req EXCEPT ![i] =
                     [IdleReq EXCEPT !.op = "revokeToken", !.token = token,
                                     !.expiresAt = expiresAt,
                                     !.pc = "deleteExpired"]]
    /\ UNCHANGED <<authVars, limitVars, clientVars, banVars, emitted, storeVars>>

\* The store commits the DELETE; the INSERT is issued.
RevokeDelete(i) ==
    /\ req[i].pc = "deleteExpired"
    /\ revoked_tokens' = deleteExpired(revoked_tokens)
    /\ req' = [req EXCEPT ![i].pc = "insertIgnore"]
    /\ UNCHANGED <<is_banned, clock, limitVars, clientVars, banVars, emitted,
                   storeVars>>

\* The store commits the INSERT IGNORE; revokeToken returns.
RevokeInsert(i) ==
    /\ req[i].pc = "insertIgnore"
    /\ revoked_tokens' = insertIgnore(revoked_tokens, sha256(req[i].token),
                                      req[i].token.userId, req[i].expiresAt)
    /\ req' = [req EXCEPT ![i].pc = "done"]
    /\ UNCHANGED <<is_banned, clock, limitVars, clientVars, banVars, emitted,
                   storeVars>>

InitRevoke ==
    /\ is_banned = [u \in Users |-> FALSE]
    /\ revoked_tokens = StoredRevocations
    /\ clock = 0
    /\ connectedUsers = <<>>
    /\ hs = [s \in Sockets |-> IdleHs]
    /\ adminReq = [i \in AdminSlots |-> IdleAdminReq]
    /\ emitted = <<>>
    /\ messages = StoredMessages
    /\ moods = <<>>
    /\ reports = {}
    /\ reactions = {}
    /\ req = [i \in ReqSlots |-> IdleReq]
    /\ now = 0
    /\ timestamps = NoTimestamps
    /\ hits = NoHits
    /\ sent = NoSent
    /\ pages = NoPages
    /\ localStorage = <<>>
    /\ lastCheck = NoCheck

NextRevoke ==
    \/ StoreTick
    \/ \E i \in ReqSlots : RevokeCall(i)
    \/ \E i \in ReqSlots : RevokeDelete(i)
    \/ \E i \in ReqSlots : RevokeInsert(i)
    \/ \E i \in AdminSlots : /\ AdminReceive(i)
                             /\ adminReq'[i].op = "unban"
                             /\ adminReq'[i].target = Target
                             /\ adminReq'[i].token.kind = "jwt"
    \/ \E i \in AdminSlots : AdminRevoked(i)
    \/ \E i \in AdminSlots : AdminFindUser(i)
    \/ \E i \in AdminSlots : AdminUpdate(i)
    \/ \E i \in AdminSlots : AdminAfterUpdate(i)

SpecRevoke == InitRevoke /\ [][NextRevoke]_vars

\* The rows of revoked_tokens with hash h, in the set rows
RowsOfHash(rows, h) == {row \in rows : row.token_hash = h}

\* C40: revokeToken is idempotent -- after it the list holds exactly one row
\* of the hash, the one it held before if any, and the other rows are as they
\* were; its DELETE removes only rows whose expiry has passed; and
\* isTokenRevoked answers true exactly when the list holds a row of the hash
\* whose expiry is in the future.
C40_RevocationList ==
    /\ [](\A row \in revoked_tokens :
             Cardinality(RowsOfHash(revoked_tokens, row.token_hash)) = 1)
    /\ [][/\ \A i \in ReqSlots :
                /\ (req[i].pc = "insertIgnore" /\ req'[i].pc = "done") =>
                      LET h == sha256(req[i].token) IN
                      /\ Cardinality(RowsOfHash(revoked_tokens', h)) = 1
                      /\ revoked_tokens \subseteq revoked_tokens'
                      /\ revoked_tokens' \ revoked_tokens
                            \subseteq RowsOfHash(revoked_tokens', h)
                /\ (req[i].pc = "deleteExpired" /\ req'[i].pc = "insertIgnore") =>
                      /\ revoked_tokens' \subseteq revoked_tokens
                      /\ \A row \in revoked_tokens \ revoked_tokens' :
                            row.expires_at < clock
          /\ \A i \in AdminSlots :
                (adminReq[i].pc = "isTokenRevoked" /\ adminReq'[i] # adminReq[i]) =>
                   ((Done(adminReq'[i]) /\ adminReq'[i].status = 401)
                      <=> \E row \in revoked_tokens :
                             /\ row.token_hash = sha256(adminReq[i].token)
                             /\ row.expires_at > clock)]_vars

\* The credential of user 1 was revoked twice, the first call having removed
\* the expired row of its hash: the list holds one row of the hash, with the
\* expiry of the first call, and a request with the credential was refused;
\* a request with the credential of user 2, whose row has expired and is
\* still held, was let through.
C40_Witness ==
    /\ \A i \in ReqSlots : /\ req[i].op = "revokeToken" /\ Done(req[i])
                           /\ req[i].token.userId = 1
    /\ req[1].expiresAt # req[2].expiresAt
    /\ RowsOfHash(revoked_tokens, sha256([kind |-> "jwt", userId |-> 1]))
          = {[token_hash |-> sha256([kind |-> "jwt", userId |-> 1]),
              user_id |-> 1, expires_at |-> req[1].expiresAt]}
    /\ \E i, j \in AdminSlots :
          /\ adminReq[i].token.userId = 1 /\ adminReq[i].status = 401
          /\ adminReq[j].token.userId = 2 /\ adminReq[j].status # 401
          /\ Done(adminReq[j])
    /\ RowsOfHash(revoked_tokens, sha256([kind |-> "jwt", userId |-> 2])) # {}

====
